---- MODULE Spec2Model ----
(***************************************************************************)
(* Model of turndown-node: the Markdown AST (turndown-core/src/ast.rs),    *)
(* its serializer (turndown-core/src/serialize.rs), the lol_html streaming *)
(* converter (turndown-napi/src/lol_streaming.rs), the tree converter      *)
(* (turndown-cdp/src/convert.rs) and the rule engine with its service      *)
(* (turndown/src/rules, turndown-cdp/src/service.rs).                      *)
(*                                                                         *)
(* A Rust String is a sequence of characters; a character is a one-letter  *)
(* TLA+ string, except EAcute, which stands for the two-byte character     *)
(* U+00E9, and Backtick for U+0060.  str::len() is the UTF-8 byte length   *)
(* (len), chars().count() is the sequence length (Len).  Option<T> is <<>> *)
(* (None) or <<v>> (Some).  A u32 is kept at full width as two 16-bit      *)
(* limbs [hi, lo].                                                         *)
(*                                                                         *)
(* Four specifications share the variables: SpecSerialize (one call of     *)
(* serialize), Spec (html_to_ast, handler by handler), SpecConvert (one    *)
(* call of convert, its Block kept in result) and SpecRules (the           *)
(* rule-based service).                                                    *)
(***************************************************************************)
EXTENDS Integers, Sequences, FiniteSets, TLC

VARIABLES
    block,         \* serialize: the Block handed to serialize
    options,       \* the Options of the conversion
    overflow_checks, \* build profile: TRUE = debug (overflow panics), FALSE = release (wraps)
    raw,           \* serialize: `output` after serialize_block, before collapse_and_trim
    output,        \* serialize: the returned String
    ser_pc,        \* serialize: "idle" | "ready" | "done" | "panicked"
    doc,           \* converters: the input node tree
    events,        \* streaming: the events the parser has not yet delivered
    stack,         \* streaming: ParserState.stack
    result,        \* streaming: <<>> or <<Block>> returned by finalize
    rules,         \* rule engine: Rules {custom_rules, keep_rules, remove_rules, commonmark_rules}
    element,       \* rule engine: the element last processed
    text_out       \* rule engine: <<>> or <<String>> returned by process_element

vars == <<block, options, overflow_checks, raw, output, ser_pc,
          doc, events, stack, result, rules, element, text_out>>

serVars == <<block, options, overflow_checks, raw, output, ser_pc>>
streamVars == <<doc, events, stack, result>>
ruleVars == <<rules, element, text_out>>

(***************************************************************************)
(* Bounds of the model.                                                    *)
(***************************************************************************)
MaxItems == 2
MaxNewlines == 3
MaxChildren == 2
MaxFilters == 1

(***************************************************************************)
(* Characters and strings.                                                 *)
(***************************************************************************)
NL == "\n"
EAcute == "U+00E9"
\* the backtick character (a string literal cannot hold it)
Backtick == "U+0060"

utf8_len(c) == IF c = EAcute THEN 2 ELSE 1

\* str::len(): the number of bytes
len(s) == Len(s) + Cardinality({i \in 1..Len(s) : utf8_len(s[i]) = 2})

is_whitespace(c) == c \in {" ", NL, "\t"}

set_min(S) == CHOOSE x \in S : \A y \in S : x <= y
set_max(S) == CHOOSE x \in S : \A y \in S : x >= y

\* s without its leading and trailing characters that satisfy drop
trim_matches_start(s, drop(_)) ==
    LET kept == {i \in 1..Len(s) : ~drop(s[i])}
    IN IF kept = {} THEN <<>> ELSE SubSeq(s, set_min(kept), Len(s))

trim_matches_end(s, drop(_)) ==
    LET kept == {i \in 1..Len(s) : ~drop(s[i])}
    IN IF kept = {} THEN <<>> ELSE SubSeq(s, 1, set_max(kept))

trim_start(s) == trim_matches_start(s, is_whitespace)
trim_end(s) == trim_matches_end(s, is_whitespace)
trim(s) == trim_end(trim_start(s))

repeat(s, n) == IF n = 0 THEN <<>> ELSE [i \in 1..(n * Len(s)) |-> s[((i - 1) % Len(s)) + 1]]

\* the concatenation of ss[lo..hi]
RECURSIVE concat_range(_, _, _)
concat_range(ss, lo, hi) ==
    IF lo > hi THEN <<>>
    ELSE IF lo = hi THEN ss[lo]
    ELSE LET mid == (lo + hi) \div 2
         IN concat_range(ss, lo, mid) \o concat_range(ss, mid + 1, hi)

concat(ss) == concat_range(ss, 1, Len(ss))

\* str::split('\n'): the pieces between newlines, always at least one piece
split_nl(s) ==
    LET nls == {i \in 1..Len(s) : s[i] = NL}
        \* the position of the k-th newline; 0 before the first, Len(s) + 1 after the last
        cut(k) == IF k = 0 THEN 0
                  ELSE IF k > Cardinality(nls) THEN Len(s) + 1
                  ELSE CHOOSE p \in nls : Cardinality({q \in nls : q < p}) = k - 1
    IN [k \in 1..(Cardinality(nls) + 1) |-> SubSeq(s, cut(k - 1) + 1, cut(k) - 1)]

\* str::lines(): split at newlines, a final empty piece is not a line
lines(s) ==
    LET ps == split_nl(s)
    IN IF ps[Len(ps)] = <<>> THEN SubSeq(ps, 1, Len(ps) - 1) ELSE ps

(***************************************************************************)
(* u32 arithmetic on two 16-bit limbs.                                     *)
(***************************************************************************)
Limb == 65536

U32(hi, lo) == [hi |-> hi, lo |-> lo]

\* the exact sum a + i (i a small natural), not reduced: hi may reach Limb
exact_add(a, i) == [hi |-> a.hi + ((a.lo + i) \div Limb), lo |-> (a.lo + i) % Limb]

add_overflows(a, i) == exact_add(a, i).hi >= Limb

wrapping_add(a, i) == [hi |-> exact_add(a, i).hi % Limb, lo |-> exact_add(a, i).lo]

Digits == <<"0", "1", "2", "3", "4", "5", "6", "7", "8", "9">>

div10(a) ==
    LET t == (a.hi % 10) * Limb + a.lo
    IN [hi |-> a.hi \div 10, lo |-> t \div 10]

mod10(a) == ((a.hi % 10) * Limb + a.lo) % 10

\* u32::to_string: the decimal digits, most significant first
RECURSIVE to_string(_)
to_string(a) ==
    IF a.hi = 0 /\ a.lo < 10 THEN <<Digits[a.lo + 1]>>
    ELSE Append(to_string(div10(a)), Digits[mod10(a) + 1])

(***************************************************************************)
(* The Markdown AST (ast.rs).  A node is a record tagged by k.             *)
(***************************************************************************)
None == <<>>
Some(v) == <<v>>

Text(s) == [k |-> "Text", s |-> s]
Strong(c) == [k |-> "Strong", c |-> c]
Emphasis(c) == [k |-> "Emphasis", c |-> c]
Code(s) == [k |-> "Code", s |-> s]
Link(c, url, title) == [k |-> "Link", c |-> c, url |-> url, title |-> title]
Image(alt, url, title) == [k |-> "Image", alt |-> alt, url |-> url, title |-> title]
LineBreak == [k |-> "LineBreak"]
HtmlInline(s) == [k |-> "HtmlInline", s |-> s]

Document(c) == [k |-> "Document", c |-> c]
Heading(level, c) == [k |-> "Heading", level |-> level, c |-> c]
Paragraph(c) == [k |-> "Paragraph", c |-> c]
BlockQuote(c) == [k |-> "BlockQuote", c |-> c]
List(ordered, start, items) == [k |-> "List", ordered |-> ordered, start |-> start, items |-> items]
CodeBlock(language, code, fenced) ==
    [k |-> "CodeBlock", language |-> language, code |-> code, fenced |-> fenced]
ThematicBreak == [k |-> "ThematicBreak"]
Table(headers, rows) == [k |-> "Table", headers |-> headers, rows |-> rows]
HtmlBlock(s) == [k |-> "HtmlBlock", s |-> s]

\* ListItem { content }: the sequence of its blocks
ListItem(content) == content

RECURSIVE inline_is_blank(_)
inline_is_blank(i) ==
    CASE i.k = "Text" -> trim(i.s) = <<>>
      [] i.k \in {"Strong", "Emphasis"} -> \A j \in 1..Len(i.c) : inline_is_blank(i.c[j])
      [] i.k = "Code" -> i.s = <<>>
      [] i.k = "Link" -> \A j \in 1..Len(i.c) : inline_is_blank(i.c[j])
      [] i.k = "Image" -> FALSE
      [] i.k = "LineBreak" -> FALSE
      [] i.k = "HtmlInline" -> trim(i.s) = <<>>

inlines_are_blank(inlines) == \A j \in 1..Len(inlines) : inline_is_blank(inlines[j])

RECURSIVE is_blank(_)
is_blank(b) ==
    CASE b.k = "Document" -> \A j \in 1..Len(b.c) : is_blank(b.c[j])
      [] b.k = "Paragraph" -> \A j \in 1..Len(b.c) : inline_is_blank(b.c[j])
      [] b.k = "Heading" -> \A j \in 1..Len(b.c) : inline_is_blank(b.c[j])
      [] b.k = "BlockQuote" -> \A j \in 1..Len(b.c) : is_blank(b.c[j])
      [] b.k = "List" ->
            \A j \in 1..Len(b.items) : \A m \in 1..Len(b.items[j]) : is_blank(b.items[j][m])
      [] b.k = "CodeBlock" -> trim(b.code) = <<>>
      [] b.k = "Table" ->
            /\ \A h \in 1..Len(b.headers) : inlines_are_blank(b.headers[h])
            /\ \A r \in 1..Len(b.rows) :
                   \A c \in 1..Len(b.rows[r]) : inlines_are_blank(b.rows[r][c])
      [] b.k = "ThematicBreak" -> FALSE
      [] b.k = "HtmlBlock" -> trim(b.s) = <<>>

RECURSIVE inlines_text_len(_)
text_len(i) ==
    CASE i.k = "Text" -> len(i.s)
      [] i.k \in {"Strong", "Emphasis"} -> inlines_text_len(i.c) + 4
      [] i.k = "Code" -> len(i.s) + 2
      [] i.k = "Link" -> inlines_text_len(i.c) + 4
      [] i.k = "Image" -> len(i.alt) + 5
      [] i.k = "LineBreak" -> 0
      [] i.k = "HtmlInline" -> len(i.s)

inlines_text_len(inlines) ==
    IF inlines = <<>> THEN 0 ELSE text_len(Head(inlines)) + inlines_text_len(Tail(inlines))

(***************************************************************************)
(* Options (options.rs).                                                   *)
(***************************************************************************)
DefaultOptions ==
    [heading_style |-> "Setext",
     hr |-> <<"*", " ", "*", " ", "*">>,
     bullet_list_marker |-> "*",
     code_block_style |-> "Indented",
     fence |-> <<Backtick, Backtick, Backtick>>,
     em_delimiter |-> "_",
     strong_delimiter |-> <<"*", "*">>,
     link_style |-> "Inlined",
     link_reference_style |-> "Full"]

(***************************************************************************)
(* The serializer (serialize.rs).  Every function of the source appends to *)
(* `out` and reads back only what it appended itself (out[start_len..]),   *)
(* so each operator returns the text it appends.                           *)
(***************************************************************************)
max(a, b) == IF a >= b THEN a ELSE b
saturating_sub(a, b) == IF a >= b THEN a - b ELSE 0

contains(s, c) == \E j \in 1..Len(s) : s[j] = c
starts_with(s, c) == s # <<>> /\ s[1] = c
ends_with(s, c) == s # <<>> /\ s[Len(s)] = c

title_part(title) == IF title = None THEN <<>> ELSE <<" ", "\"">> \o title[1] \o <<"\"">>

RECURSIVE serialize_inlines(_, _)
serialize_inline(inline, opts) ==
    CASE inline.k = "Text" -> inline.s
      [] inline.k = "Strong" ->
            LET inner == serialize_inlines(inline.c, opts)
            IN IF trim(inner) = <<>> THEN <<>>
               ELSE opts.strong_delimiter \o inner \o opts.strong_delimiter
      [] inline.k = "Emphasis" ->
            LET inner == serialize_inlines(inline.c, opts)
            IN IF trim(inner) = <<>> THEN <<>>
               ELSE <<opts.em_delimiter>> \o inner \o <<opts.em_delimiter>>
      [] inline.k = "Code" ->
            IF inline.s = <<>> THEN <<>>
            ELSE LET backticks == IF contains(inline.s, Backtick) THEN <<Backtick, Backtick>> ELSE <<Backtick>>
                     space == IF starts_with(inline.s, Backtick) \/ ends_with(inline.s, Backtick)
                              THEN <<" ">> ELSE <<>>
                 IN backticks \o space \o inline.s \o space \o backticks
      [] inline.k = "Link" ->
            <<"[">> \o serialize_inlines(inline.c, opts) \o <<"]", "(">> \o inline.url
                \o title_part(inline.title) \o <<")">>
      [] inline.k = "Image" ->
            <<"!", "[">> \o inline.alt \o <<"]", "(">> \o inline.url
                \o title_part(inline.title) \o <<")">>
      [] inline.k = "LineBreak" -> <<" ", " ", NL>>
      [] inline.k = "HtmlInline" -> inline.s

serialize_inlines(inlines, opts) ==
    IF inlines = <<>> THEN <<>>
    ELSE serialize_inline(Head(inlines), opts) \o serialize_inlines(Tail(inlines), opts)

serialize_heading(level, content, opts) ==
    LET text == serialize_inlines(content, opts)
        text_len_ == len(text)
    IN IF trim(text) = <<>> THEN <<>>
       ELSE IF opts.heading_style = "Setext" /\ level <= 2
            THEN text \o <<NL>> \o repeat(<<IF level = 1 THEN "=" ELSE "-">>, text_len_)
                      \o <<NL, NL>>
            ELSE repeat(<<"#">>, level) \o <<" ">> \o text \o <<NL, NL>>

\* serialize_code_block looking at the block's flag only
serialize_code_block_flag_only(language, code, fenced, opts) ==
    LET use_fenced == fenced
        ls == lines(code)
    IN IF use_fenced
       THEN opts.fence \o (IF language = None THEN <<>> ELSE language[1]) \o <<NL>> \o code
                \o <<NL>> \o opts.fence \o <<NL, NL>>
       ELSE concat([j \in 1..Len(ls) |-> <<" ", " ", " ", " ">> \o ls[j] \o <<NL>>]) \o <<NL>>

serialize_code_block(language, code, fenced, opts) ==
    LET use_fenced == fenced \/ opts.code_block_style = "Fenced"
        ls == lines(code)
    IN IF use_fenced
       THEN opts.fence \o (IF language = None THEN <<>> ELSE language[1]) \o <<NL>> \o code
                \o <<NL>> \o opts.fence \o <<NL, NL>>
       ELSE concat([j \in 1..Len(ls) |-> <<" ", " ", " ", " ">> \o ls[j] \o <<NL>>]) \o <<NL>>

\* the widths without the minimum of 3
table_widths_no_min(headers, rows) ==
    [i \in 1..Len(headers) |->
        LET RECURSIVE over_rows(_, _)
            over_rows(w, r) ==
                IF r > Len(rows) THEN w
                ELSE over_rows(IF i <= Len(rows[r])
                               THEN max(w, inlines_text_len(rows[r][i])) ELSE w, r + 1)
        IN over_rows(inlines_text_len(headers[i]), 1)]

\* widths after the header pass, the row pass and the minimum of 3
table_widths(headers, rows) ==
    [i \in 1..Len(headers) |->
        LET RECURSIVE over_rows(_, _)
            over_rows(w, r) ==
                IF r > Len(rows) THEN w
                ELSE over_rows(IF i <= Len(rows[r])
                               THEN max(w, inlines_text_len(rows[r][i])) ELSE w, r + 1)
        IN max(over_rows(inlines_text_len(headers[i]), 1), 3)]

\* widths.get(i).copied().unwrap_or(3)
width_get(widths, i) == IF i <= Len(widths) THEN widths[i] ELSE 3

serialize_cell(cell, width, opts) ==
    LET text == serialize_inlines(cell, opts)
        padding == saturating_sub(width, len(text))
    IN <<" ">> \o text \o repeat(<<" ">>, padding) \o <<" ", "|">>

serialize_table(headers, rows, opts) ==
    IF headers = <<>> THEN <<>>
    ELSE LET widths == table_widths(headers, rows)
             header_row == <<"|">> \o concat([i \in 1..Len(headers) |->
                                 serialize_cell(headers[i], width_get(widths, i), opts)]) \o <<NL>>
             separator == <<"|">> \o concat([i \in 1..Len(headers) |->
                                 <<" ">> \o repeat(<<"-">>, widths[i]) \o <<" ", "|">>]) \o <<NL>>
             data_row(row) == <<"|">> \o concat([i \in 1..Len(row) |->
                                 serialize_cell(row[i], width_get(widths, i), opts)]) \o <<NL>>
         IN header_row \o separator \o concat([r \in 1..Len(rows) |-> data_row(rows[r])])
                \o <<NL>>

\* the indentation pass at the end of serialize_list_item
indent_continuation(content, prefix_len, indent) ==
    LET ls == lines(content)
        continuation_indent == repeat(<<" ">>, prefix_len)
    IN concat([i \in 1..Len(ls) |->
                  (IF i > 1 THEN indent \o continuation_indent ELSE <<>>) \o ls[i] \o <<NL>>])

\* the text written before an item: the number or the bullet
item_prefix(ordered, start, i, opts) ==
    IF ordered THEN to_string(wrapping_add(start, i)) \o <<".", " ", " ">>
    ELSE <<opts.bullet_list_marker, " ", " ", " ">>

item_prefix_len(ordered, start, i) ==
    IF ordered THEN len(to_string(wrapping_add(start, i))) + 3 ELSE 4

list_indent(depth) == repeat(<<" ", " ", " ", " ">>, depth)

RECURSIVE serialize_block(_, _, _), serialize_blocks(_, _, _),
          serialize_list(_, _, _, _, _), serialize_list_item(_, _, _, _, _)

serialize_blocks(blocks, opts, depth) ==
    IF blocks = <<>> THEN <<>>
    ELSE (IF ~is_blank(Head(blocks)) THEN serialize_block(Head(blocks), opts, depth) ELSE <<>>)
             \o serialize_blocks(Tail(blocks), opts, depth)

serialize_list_item(item, opts, depth, prefix_len, indent) ==
    LET piece(i) ==
            CASE item[i].k = "Paragraph" ->
                    serialize_inlines(item[i].c, opts)
                        \o (IF i - 1 < Len(item) - 1 THEN <<NL, NL>> ELSE <<>>)
              [] item[i].k = "List" -> <<NL>> \o serialize_block(item[i], opts, depth)
              [] OTHER -> serialize_block(item[i], opts, depth)
        content == concat([i \in 1..Len(item) |-> piece(i)])
    IN indent_continuation(content, prefix_len, indent)

serialize_list(ordered, start, items, opts, depth) ==
    LET indent == list_indent(depth)
    IN concat([j \in 1..Len(items) |->
                  indent \o item_prefix(ordered, start, j - 1, opts)
                      \o serialize_list_item(items[j], opts, depth + 1,
                                             item_prefix_len(ordered, start, j - 1), indent)])
           \o <<NL>>

quote_lines(content) ==
    LET ls == lines(content)
    IN concat([i \in 1..Len(ls) |->
                  (IF i > 1 THEN <<NL>> ELSE <<>>) \o <<">">>
                      \o (IF ls[i] # <<>> THEN <<" ">> \o ls[i] ELSE <<>>)])

serialize_block(b, opts, depth) ==
    CASE b.k = "Document" -> serialize_blocks(b.c, opts, depth)
      [] b.k = "Heading" -> serialize_heading(b.level, b.c, opts)
      [] b.k = "Paragraph" ->
            LET text == serialize_inlines(b.c, opts)
            IN IF trim(text) = <<>> THEN <<>> ELSE text \o <<NL, NL>>
      [] b.k = "BlockQuote" ->
            quote_lines(trim_end(serialize_blocks(b.c, opts, depth))) \o <<NL, NL>>
      [] b.k = "List" -> serialize_list(b.ordered, b.start, b.items, opts, depth)
      [] b.k = "CodeBlock" -> serialize_code_block(b.language, b.code, b.fenced, opts)
      [] b.k = "ThematicBreak" -> opts.hr \o <<NL, NL>>
      [] b.k = "Table" -> serialize_table(b.headers, b.rows, opts)
      [] b.k = "HtmlBlock" -> b.s \o <<NL, NL>>

\* `start + i as u32` in serialize_list overflows somewhere in the traversal
RECURSIVE serialize_overflows(_)
serialize_overflows(b) ==
    CASE b.k \in {"Document", "BlockQuote"} ->
            \E j \in 1..Len(b.c) : ~is_blank(b.c[j]) /\ serialize_overflows(b.c[j])
      [] b.k = "List" ->
            \/ \E j \in 1..Len(b.items) : b.ordered /\ add_overflows(b.start, j - 1)
            \/ \E j \in 1..Len(b.items) :
                   \E m \in 1..Len(b.items[j]) : serialize_overflows(b.items[j][m])
      [] OTHER -> FALSE

is_newline(c) == c = NL

\* the first loop of collapse_and_trim: start moves past the leading newlines
skip_newlines(s) == trim_matches_start(s, is_newline)

\* the second loop: end moves back over the trailing newlines
drop_trailing_newlines(s) == trim_matches_end(s, is_newline)

\* collapse_newlines letting a third newline of a run through
collapse_newlines_keep3(s) ==
    LET newline_count(i) == i - set_max({0} \cup {j \in 1..i : s[j] # NL})
    IN concat([i \in 1..Len(s) |->
                  IF s[i] = NL /\ ~(newline_count(i) <= 3) THEN <<>> ELSE <<s[i]>>])

\* the third loop: newline_count at byte i is the length of the run of newlines ending
\* at i; the byte is pushed unless it is a newline with newline_count > 2
collapse_newlines(s) ==
    LET newline_count(i) == i - set_max({0} \cup {j \in 1..i : s[j] # NL})
    IN concat([i \in 1..Len(s) |->
                  IF s[i] = NL /\ ~(newline_count(i) <= 2) THEN <<>> ELSE <<s[i]>>])

collapse_and_trim(s) == collapse_newlines(drop_trailing_newlines(skip_newlines(s)))

\* serialize writing behind the text a buffer kept from an earlier call holds
serialize_kept_buffer(b, opts) == collapse_and_trim(raw \o serialize_block(b, opts, 0))

\* serialize(block, options) where no addition overflows or the build wraps
serialize(b, opts) == collapse_and_trim(serialize_block(b, opts, 0))

(***************************************************************************)
(* Text utilities shared by the converters (convert.rs, lol_streaming.rs). *)
(***************************************************************************)
collapse_whitespace(s) ==
    concat([i \in 1..Len(s) |->
               IF is_whitespace(s[i])
               THEN (IF i > 1 /\ is_whitespace(s[i - 1]) THEN <<>> ELSE <<" ">>)
               ELSE <<s[i]>>])

EscapedChars == {"\\", "*", "_", "[", "]", "#", "+", "-", "!", Backtick}

escape_markdown(s) ==
    concat([i \in 1..Len(s) |-> IF s[i] \in EscapedChars THEN <<"\\", s[i]>> ELSE <<s[i]>>])

is_digit(c) == \E d \in 1..10 : Digits[d] = c
digit_value(c) == (CHOOSE d \in 1..10 : Digits[d] = c) - 1

\* str::parse::<u32>(): None unless the text is an optional '+' followed by decimal
\* digits whose value fits into 32 bits
RECURSIVE parse_digits(_, _)
parse_digits(s, acc) ==
    IF s = <<>> THEN Some(acc)
    ELSE IF ~is_digit(Head(s)) THEN None
    ELSE LET lo == acc.lo * 10 + digit_value(Head(s))
             hi == acc.hi * 10 + (lo \div Limb)
         IN IF hi >= Limb THEN None ELSE parse_digits(Tail(s), U32(hi, lo % Limb))

parse_u32(s) ==
    LET digits == IF starts_with(s, "+") THEN Tail(s) ELSE s
    IN IF digits = <<>> THEN None ELSE parse_digits(digits, U32(0, 0))

unwrap_or(opt, default) == IF opt = None THEN default ELSE opt[1]

\* str::split_whitespace(): the maximal pieces without whitespace
split_whitespace(s) ==
    LET starts == {i \in 1..Len(s) : ~is_whitespace(s[i]) /\ (i = 1 \/ is_whitespace(s[i - 1]))}
        stop(i) == set_min({j \in i..(Len(s) + 1) : j = Len(s) + 1 \/ is_whitespace(s[j])})
    IN [k \in 1..Cardinality(starts) |->
           LET i == CHOOSE p \in starts : Cardinality({q \in starts : q < p}) = k - 1
           IN SubSeq(s, i, stop(i) - 1)]

LanguagePrefix == <<"l", "a", "n", "g", "u", "a", "g", "e", "-">>

has_prefix(s, t) == Len(t) <= Len(s) /\ SubSeq(s, 1, Len(t)) = t

\* class.split_whitespace().find(|s| s.starts_with("language-")).map(|s| s[9..])
language_of(class) ==
    IF class = None THEN None
    ELSE LET ws == split_whitespace(class[1])
             hits == {k \in 1..Len(ws) : has_prefix(ws[k], LanguagePrefix)}
         IN IF hits = {} THEN None
            ELSE Some(SubSeq(ws[set_min(hits)], 10, Len(ws[set_min(hits)])))

(***************************************************************************)
(* The node tree handed to the tree converter (node.rs).  An element also  *)
(* records whether the markup has an end tag for it, which only the        *)
(* streaming parser observes.                                              *)
(***************************************************************************)
NoAttrs ==
    [href |-> None, src |-> None, alt |-> None, title |-> None, start |-> None, class |-> None]

TextNode(value) == [node_type |-> "Text", node_value |-> value]
ElementNode(tag, attrs, children, end_tag) ==
    [node_type |-> "Element", node_name |-> tag, attributes |-> attrs,
     children |-> children, end_tag |-> end_tag]
DocumentFragment(children) ==
    [node_type |-> "DocumentFragment", children |-> children]

is_element(node) == node.node_type = "Element"
tag_name(node) == IF node.node_type = "Element" THEN node.node_name ELSE ""
children_of(node) == IF node.node_type = "Text" THEN <<>> ELSE node.children

element_children(node) == SelectSeq(children_of(node), is_element)

RECURSIVE text_content(_)
text_content(node) ==
    IF node.node_type = "Text" THEN node.node_value
    ELSE concat([i \in 1..Len(children_of(node)) |-> text_content(children_of(node)[i])])

RECURSIVE inline_to_text(_)
inline_to_text(inline) ==
    CASE inline.k = "Text" -> inline.s
      [] inline.k \in {"Strong", "Emphasis", "Link"} ->
            concat([i \in 1..Len(inline.c) |-> inline_to_text(inline.c[i])])
      [] inline.k = "Code" -> inline.s
      [] inline.k = "Image" -> inline.alt
      [] inline.k = "LineBreak" -> <<NL>>
      [] inline.k = "HtmlInline" -> inline.s

(***************************************************************************)
(* The tree converter (convert.rs).  An Option<Block> or Option<Inline> is *)
(* None or Some(v); ctx is the Context {in_pre}.                           *)
(***************************************************************************)
DefaultContext == [in_pre |-> FALSE]

HeadingTags == {"h1", "h2", "h3", "h4", "h5", "h6"}
heading_level(tag) ==
    CASE tag = "h1" -> 1 [] tag = "h2" -> 2 [] tag = "h3" -> 3
      [] tag = "h4" -> 4 [] tag = "h5" -> 5 [] tag = "h6" -> 6

ContainerTags ==
    {"div", "section", "article", "main", "aside", "header", "footer", "nav",
     "figure", "figcaption", "address", "form", "fieldset"}
InlineContainerTags == {"span", "small", "mark", "abbr", "cite", "q", "sub", "sup", "time"}
SkippedTags == {"script", "style", "noscript", "template"}

\* the Some values of a sequence of options, in order
somes(opts) == concat([i \in 1..Len(opts) |-> opts[i]])

\* one inline if there is exactly one, nothing if none, else their flattened text
merge_inlines(inner) ==
    IF Len(inner) = 1 THEN Some(inner[1])
    ELSE IF inner = <<>> THEN None
    ELSE Some(Text(concat([i \in 1..Len(inner) |-> inline_to_text(inner[i])])))

RECURSIVE collect_inlines(_, _, _), convert_inline_element(_, _, _)

collect_inlines(node, opts, ctx) ==
    LET cs == children_of(node)
        one(child) ==
            CASE child.node_type = "Text" ->
                    IF ctx.in_pre THEN Some(Text(child.node_value))
                    ELSE IF collapse_whitespace(child.node_value) # <<>>
                         THEN Some(Text(escape_markdown(collapse_whitespace(child.node_value))))
                         ELSE None
              [] child.node_type = "Element" -> convert_inline_element(child, opts, ctx)
              [] OTHER -> None
    IN somes([i \in 1..Len(cs) |-> one(cs[i])])

\* the match of convert_inline_element on the tag; inner is the value of
\* collect_inlines(node, options, ctx) where an arm asks for it
inline_of(node, inner) ==
    LET tag == tag_name(node)
        attrs == node.attributes
    IN CASE tag \in {"strong", "b"} ->
                IF inlines_are_blank(inner) THEN None ELSE Some(Strong(inner))
         [] tag \in {"em", "i"} ->
                IF inlines_are_blank(inner) THEN None ELSE Some(Emphasis(inner))
         [] tag = "code" ->
                IF text_content(node) = <<>> THEN None ELSE Some(Code(text_content(node)))
         [] tag = "a" ->
                LET href == unwrap_or(attrs.href, <<>>)
                IN IF href = <<>> /\ attrs.title = None
                   THEN (IF Len(inner) = 1 THEN Some(inner[1]) ELSE None)
                   ELSE Some(Link(inner, href, attrs.title))
         [] tag = "img" ->
                LET src == unwrap_or(attrs.src, <<>>)
                IN IF src = <<>> THEN None
                   ELSE Some(Image(unwrap_or(attrs.alt, <<>>), src, attrs.title))
         [] tag = "br" -> Some(LineBreak)
         [] tag \in InlineContainerTags -> merge_inlines(inner)
         [] tag \in {"p", "div"} \cup HeadingTags ->
                IF trim(text_content(node)) = <<>> THEN None
                ELSE Some(Text(escape_markdown(collapse_whitespace(text_content(node)))))
         [] OTHER -> merge_inlines(inner)

convert_inline_element(node, opts, ctx) == inline_of(node, collect_inlines(node, opts, ctx))

is_cell(n) == tag_name(n) \in {"th", "td"}
is_th(n) == tag_name(n) = "th"
is_tr(n) == tag_name(n) = "tr"

row_cells(tr, opts, ctx) ==
    LET cells == SelectSeq(element_children(tr), is_cell)
    IN [i \in 1..Len(cells) |-> collect_inlines(cells[i], opts, ctx)]

\* the header cells a thead child gives: the cells of its first tr
thead_cells(child, opts, ctx) ==
    LET trs == SelectSeq(element_children(child), is_tr)
    IN IF trs = <<>> THEN <<>> ELSE row_cells(trs[1], opts, ctx)

\* the rows a tbody child gives: the cells of each tr, without the empty rows
tbody_rows(child, opts, ctx) ==
    LET trs == SelectSeq(element_children(child), is_tr)
    IN SelectSeq([i \in 1..Len(trs) |-> row_cells(trs[i], opts, ctx)], LAMBDA r : r # <<>>)

\* one pass of the loop over the children of a table for a child with this tag:
\* head, body and row are the cells the child gives as a thead, a tbody and a tr
table_step(acc, tag, head, body, row, is_header) ==
    CASE tag = "thead" -> [acc EXCEPT !.headers = @ \o head]
      [] tag = "tbody" -> [acc EXCEPT !.rows = @ \o body]
      [] tag = "tr" ->
            IF row = <<>> THEN acc
            ELSE IF is_header /\ acc.headers = <<>>
                 THEN [acc EXCEPT !.headers = row]
                 ELSE [acc EXCEPT !.rows = Append(@, row)]
      [] OTHER -> acc

\* the loop over the children of a table: acc is [headers, rows] so far
RECURSIVE table_parts(_, _, _, _)
table_parts(cs, acc, opts, ctx) ==
    IF cs = <<>> THEN acc
    ELSE table_parts(Tail(cs),
                     table_step(acc, tag_name(Head(cs)), thead_cells(Head(cs), opts, ctx),
                                tbody_rows(Head(cs), opts, ctx), row_cells(Head(cs), opts, ctx),
                                SelectSeq(element_children(Head(cs)), is_th) # <<>>),
                     opts, ctx)

\* convert_table without the return of None for a table without cells
convert_table_unchecked(node, opts, ctx) ==
    LET acc == table_parts(children_of(node), [headers |-> <<>>, rows |-> <<>>], opts, ctx)
    IN IF acc.headers = <<>> /\ acc.rows # <<>>
       THEN Some(Table(Head(acc.rows), Tail(acc.rows)))
       ELSE Some(Table(acc.headers, acc.rows))

convert_table(node, opts, ctx) ==
    LET acc == table_parts(children_of(node), [headers |-> <<>>, rows |-> <<>>], opts, ctx)
    IN IF acc.headers = <<>> /\ acc.rows = <<>> THEN None
       ELSE IF acc.headers = <<>>
            THEN Some(Table(Head(acc.rows), Tail(acc.rows)))
            ELSE Some(Table(acc.headers, acc.rows))

\* a container's blocks: the block itself if there is one, nothing if none
merge_blocks(blocks) ==
    IF Len(blocks) = 1 THEN Some(blocks[1])
    ELSE IF blocks = <<>> THEN None
    ELSE Some(Document(blocks))

is_code_element(n) == tag_name(n) = "code"

RECURSIVE convert_children(_, _, _), convert_element(_, _, _), collect_list_items(_, _, _)

convert_children(node, opts, ctx) ==
    LET cs == children_of(node)
        one(child) ==
            CASE child.node_type = "Text" ->
                    IF trim(child.node_value) # <<>> /\ ~ctx.in_pre
                    THEN Some(Paragraph(<<Text(escape_markdown(collapse_whitespace(child.node_value)))>>))
                    ELSE None
              [] child.node_type = "Element" -> convert_element(child, opts, ctx)
              [] OTHER -> None
    IN somes([i \in 1..Len(cs) |-> one(cs[i])])

collect_list_items(node, opts, ctx) ==
    LET cs == children_of(node)
        one(child) ==
            IF is_element(child) /\ tag_name(child) = "li"
            THEN LET blocks == convert_children(child, opts, ctx)
                 IN Some(ListItem(IF blocks = <<>>
                                  THEN <<Paragraph(collect_inlines(child, opts, ctx))>>
                                  ELSE blocks))
            ELSE None
    IN somes([i \in 1..Len(cs) |-> one(cs[i])])

\* the match of convert_element on the tag; inlines, blocks, items, inline and
\* table are the values of collect_inlines, convert_children, collect_list_items,
\* convert_inline_element and convert_table on the node where an arm asks for them
block_of(node, opts, inlines, blocks, items, inline, table) ==
    LET tag == tag_name(node)
        code_nodes == SelectSeq(element_children(node), is_code_element)
    IN CASE tag = "p" ->
                IF inlines_are_blank(inlines) THEN None ELSE Some(Paragraph(inlines))
         [] tag \in HeadingTags ->
                IF inlines_are_blank(inlines) THEN None
                ELSE Some(Heading(heading_level(tag), inlines))
         [] tag = "blockquote" ->
                IF blocks = <<>> THEN None ELSE Some(BlockQuote(blocks))
         [] tag = "ul" ->
                IF items = <<>> THEN None ELSE Some(List(FALSE, U32(0, 1), items))
         [] tag = "ol" ->
                LET start == IF node.attributes.start = None THEN U32(0, 1)
                             ELSE unwrap_or(parse_u32(node.attributes.start[1]), U32(0, 1))
                IN IF items = <<>> THEN None ELSE Some(List(TRUE, start, items))
         [] tag = "pre" ->
                IF code_nodes # <<>>
                THEN Some(CodeBlock(language_of(code_nodes[1].attributes.class),
                                    text_content(code_nodes[1]),
                                    opts.code_block_style = "Fenced"))
                ELSE Some(CodeBlock(None, text_content(node), FALSE))
         [] tag = "hr" -> Some(ThematicBreak)
         [] tag = "table" -> table
         [] tag \in ContainerTags -> merge_blocks(blocks)
         [] tag \in {"a", "strong", "b", "em", "i", "code", "span", "img", "br"} ->
                IF inline = None THEN None ELSE Some(Paragraph(<<inline[1]>>))
         [] tag \in SkippedTags -> None
         [] OTHER ->
                IF blocks = <<>>
                THEN (IF inlines_are_blank(inlines) THEN None ELSE Some(Paragraph(inlines)))
                ELSE merge_blocks(blocks)

convert_element(node, opts, ctx) ==
    block_of(node, opts, collect_inlines(node, opts, ctx), convert_children(node, opts, ctx),
             collect_list_items(node, opts, ctx), convert_inline_element(node, opts, ctx),
             convert_table(node, opts, ctx))

RECURSIVE flatten_document(_)
flatten_document(b) ==
    IF b.k = "Document" /\ Len(b.c) = 1 THEN flatten_document(b.c[1]) ELSE b

convert(node, opts) ==
    IF is_element(node) /\ convert_element(node, opts, DefaultContext) # None
    THEN flatten_document(convert_element(node, opts, DefaultContext)[1])
    ELSE Document(convert_children(node, opts, DefaultContext))

(***************************************************************************)
(* Inputs of the serializer: Blocks built from a few texts, inlines and    *)
(* list shapes.                                                            *)
(***************************************************************************)
U32Max == U32(Limb - 1, Limb - 1)

Ta == <<"a">>
Tb == <<"b">>
Turl == <<"u">>

\* "a", then n newlines, then "b"
newline_run(n) == Ta \o repeat(<<NL>>, n) \o Tb

Texts ==
    {<<>>, Ta, <<"a", "b", "c", "d">>, <<" ">>, <<EAcute>>, <<"a", EAcute>>, <<NL, "a", NL>>}
        \cup {newline_run(n) : n \in 1..MaxNewlines}
        \cup {repeat(<<NL>>, MaxNewlines) \o Ta}

InlineSeqs ==
    {<<>>}
        \cup {<<Text(t)>> : t \in Texts}
        \cup {<<Strong(<<Text(Ta)>>)>>, <<Strong(<<>>)>>, <<Emphasis(<<Text(<<EAcute>>)>>)>>,
              <<Code(Ta)>>, <<Code(<<>>)>>, <<Code(<<Backtick, "a">>)>>,
              <<Code(<<"a", Backtick, "b">>)>>, <<Code(<<"a", Backtick, Backtick, "b">>)>>,
              <<Code(<<" ", "a">>)>>, <<Code(<<" ">>)>>,
              <<Link(<<Text(Ta)>>, Turl, None)>>, <<Link(<<>>, Turl, Some(Tb))>>,
              <<Image(Ta, Turl, None)>>, <<Image(<<>>, Turl, Some(Tb))>>,
              <<LineBreak>>, <<Text(Ta), LineBreak, Text(Tb)>>,
              <<HtmlInline(<<"<", "i", ">">>)>>, <<Text(Ta), Strong(<<Text(Tb)>>)>>}

Pa == Paragraph(<<Text(Ta)>>)
Pb == Paragraph(<<Text(Tb)>>)

Starts == {U32(0, 1), U32(0, 9), U32Max, U32(Limb - 1, Limb - MaxItems)}

SimpleItems == {<<Pa>>, <<Pb>>}

\* the lists that occur inside items
InnerLists ==
    {List(FALSE, U32(0, 1), <<<<Pa>>, <<Paragraph(<<Text(newline_run(1))>>)>>>>),
     List(TRUE, U32(0, 9), <<<<Pa>>, <<Pb>>>>)}

ItemContents ==
    {<<>>, <<Pa>>, <<Paragraph(<<>>)>>, <<Paragraph(<<Text(newline_run(1))>>)>>,
     <<Pa, Pb>>, <<CodeBlock(None, Ta, FALSE)>>}
        \cup {<<Pa, l>> : l \in InnerLists}
        \cup {<<l>> : l \in InnerLists}

RECURSIVE SeqsUpTo(_, _)
SeqsUpTo(S, n) ==
    IF n = 0 THEN {<<>>}
    ELSE SeqsUpTo(S, n - 1)
             \cup {Append(q, x) : q \in {r \in SeqsUpTo(S, n - 1) : Len(r) = n - 1}, x \in S}

\* up to two items of any content, and up to MaxItems simple ones
ItemSeqs ==
    {<<>>} \cup {<<c>> : c \in ItemContents} \cup {<<c, d>> : c \in ItemContents, d \in ItemContents}
        \cup SeqsUpTo(SimpleItems \cup {<<>>}, MaxItems)

Lists == {List(o, st, its) : o \in BOOLEAN, st \in Starts, its \in ItemSeqs}

Codes == {<<>>, Ta, <<" ">>, newline_run(1), newline_run(MaxNewlines), <<"a", NL>>}

Cells ==
    {<<>>, <<Text(Ta)>>, <<Text(<<"a", "b", "c", "d">>)>>, <<Strong(<<Text(Ta)>>)>>,
     <<Emphasis(<<Text(<<EAcute>>)>>)>>, <<Text(<<EAcute>>)>>, <<Code(Ta)>>,
     <<Code(<<Backtick, "a">>)>>, <<Link(<<Text(Ta)>>, Turl, None)>>,
     <<Image(Ta, Turl, None)>>}

HeaderRows ==
    {<<>>} \cup {<<c>> : c \in Cells}
        \cup {<<<<Text(Ta)>>, <<Text(Tb)>>>>, <<<<Text(<<"a", "b", "c", "d">>)>>, <<>>>>}

RowSeqs ==
    {<<>>} \cup {<<<<c>>>> : c \in Cells}
        \cup {<<<<<<Text(Tb)>>>>, <<<<Text(<<"a", "b", "c", "d">>)>>>>>>,
              <<<<<<Text(Tb)>>, <<Text(<<"a", "b", "c", "d">>)>>>>>>,
              <<<<>>>>,
              <<<<<<Text(Ta)>>>>, <<<<Text(Tb)>>, <<Strong(<<Text(Ta)>>)>>>>>>}

Tables == {Table(h, r) : h \in HeaderRows, r \in RowSeqs}

LeafBlocks ==
    {Paragraph(is) : is \in InlineSeqs}
        \cup {Heading(l, is) : l \in {1, 2, 3, 6}, is \in InlineSeqs}
        \cup {CodeBlock(la, co, fe) : la \in {None, Some(<<"r">>)}, co \in Codes, fe \in BOOLEAN}
        \cup {ThematicBreak, HtmlBlock(<<>>), HtmlBlock(<<"<", "x", ">">>)}
        \cup Tables

\* the blocks put inside a BlockQuote or a Document
Children ==
    {Pa, Paragraph(<<>>), Paragraph(<<Text(newline_run(MaxNewlines))>>),
     Heading(1, <<Text(Ta)>>), ThematicBreak, CodeBlock(None, newline_run(2), TRUE),
     List(FALSE, U32(0, 1), <<<<Pa>>>>), List(FALSE, U32(0, 1), <<<<>>>>),
     BlockQuote(<<Pa>>), BlockQuote(<<>>)}

Containers ==
    {BlockQuote(c) : c \in SeqsUpTo(Children, 2)}
        \cup {Document(c) : c \in SeqsUpTo(Children, 2)}

Blocks == LeafBlocks \cup Lists \cup Containers

OptionsSet ==
    {[DefaultOptions EXCEPT !.heading_style = hs, !.code_block_style = cs] :
        hs \in {"Setext", "Atx"}, cs \in {"Indented", "Fenced"}}

(***************************************************************************)
(* Idle values of the parts a specification does not exercise.             *)
(***************************************************************************)
SerIdle ==
    /\ block = Document(<<>>) /\ overflow_checks = FALSE
    /\ raw = <<>> /\ output = <<>> /\ ser_pc = "idle"

StreamIdle == doc = <<>> /\ events = <<>> /\ stack = <<>> /\ result = None

RulesIdle == rules = <<>> /\ element = <<>> /\ text_out = None

(***************************************************************************)
(* serialize as an operation: one call on one Block.                       *)
(***************************************************************************)
SerInit ==
    /\ block \in Blocks
    /\ options \in OptionsSet
    /\ overflow_checks \in BOOLEAN
    /\ raw = <<>> /\ output = <<>> /\ ser_pc = "ready"
    /\ StreamIdle /\ RulesIdle

\* serialize returns: serialize_block, then collapse_and_trim
Serialize ==
    /\ ser_pc = "ready"
    /\ ~(overflow_checks /\ serialize_overflows(block))
    /\ raw' = serialize_block(block, options, 0)
    /\ output' = collapse_and_trim(raw')
    /\ ser_pc' = "done"
    /\ UNCHANGED <<block, options, overflow_checks, streamVars, ruleVars>>

\* serialize unwinds: `start + i as u32` overflows in a build with overflow checks
SerializePanic ==
    /\ ser_pc = "ready"
    /\ overflow_checks /\ serialize_overflows(block)
    /\ ser_pc' = "panicked"
    /\ UNCHANGED <<block, options, overflow_checks, raw, output, streamVars, ruleVars>>

SerNext == Serialize \/ SerializePanic

SpecSerialize == SerInit /\ [][SerNext]_vars

(***************************************************************************)
(* The streaming converter (lol_streaming.rs): ParserState is the stack of *)
(* element contexts, the last one being the current context.               *)
(***************************************************************************)
ElementContext(tag) ==
    [tag |-> tag, inlines |-> <<>>, blocks |-> <<>>, list_items |-> <<>>,
     table_headers |-> <<>>, table_rows |-> <<>>, attrs |-> NoAttrs]

ParserState_new == <<ElementContext("$root")>>

\* the attributes the element handler copies; start is parsed as a u32 on the way
ElementAttrs(attributes) ==
    [attributes EXCEPT !.start = IF @ = None THEN None ELSE parse_u32(@[1])]

\* push_element leaving the attributes of the new context at their defaults
push_element_no_attrs(st, tag, attrs) == Append(st, ElementContext(tag))

push_element(st, tag, attrs) == Append(st, [ElementContext(tag) EXCEPT !.attrs = attrs])

\* pop_element popping whatever is on top, the root included
pop_element_unguarded(st) ==
    [ctx |-> Some(st[Len(st)]), stack |-> SubSeq(st, 1, Len(st) - 1)]

\* Some(context) and the stack without it, or None and the stack as it is
pop_element(st) ==
    IF Len(st) > 1
    THEN [ctx |-> Some(st[Len(st)]), stack |-> SubSeq(st, 1, Len(st) - 1)]
    ELSE [ctx |-> None, stack |-> st]

add_inline(st, inline) == [st EXCEPT ![Len(st)].inlines = Append(@, inline)]

add_block(st, b) ==
    IF is_blank(b) THEN st ELSE [st EXCEPT ![Len(st)].blocks = Append(@, b)]

add_text(st, text) ==
    LET in_pre == \E i \in 1..Len(st) : st[i].tag = "pre"
        in_code == \E i \in 1..Len(st) : st[i].tag = "code"
    IN IF text = <<>> THEN st
       ELSE IF in_pre \/ in_code THEN add_inline(st, Text(text))
       ELSE IF collapse_whitespace(text) = <<>> THEN st
       ELSE add_inline(st, Text(escape_markdown(collapse_whitespace(text))))

FinalizedBlock(b) == [kind |-> "Block", v |-> b]
FinalizedInline(i) == [kind |-> "Inline", v |-> i]
FinalizedNone == [kind |-> "None"]

\* blocks if any, else the inlines as one paragraph, else nothing
preserve_content(ctx) ==
    IF ctx.blocks # <<>>
    THEN (IF Len(ctx.blocks) = 1 THEN FinalizedBlock(ctx.blocks[1])
          ELSE FinalizedBlock(Document(ctx.blocks)))
    ELSE IF ~inlines_are_blank(ctx.inlines) THEN FinalizedBlock(Paragraph(ctx.inlines))
    ELSE FinalizedNone

finalize_element(ctx, opts) ==
    LET tag == ctx.tag
        inlines == ctx.inlines
        code_text == concat([i \in 1..Len(inlines) |->
                                IF inlines[i].k \in {"Text", "Code"} THEN inlines[i].s ELSE <<>>])
        text == concat([i \in 1..Len(inlines) |->
                           IF inlines[i].k = "Text" THEN inlines[i].s ELSE <<>>])
        href == unwrap_or(ctx.attrs.href, <<>>)
    IN CASE tag = "p" ->
                IF inlines_are_blank(inlines) THEN FinalizedNone
                ELSE FinalizedBlock(Paragraph(inlines))
         [] tag \in HeadingTags ->
                IF inlines_are_blank(inlines) THEN FinalizedNone
                ELSE FinalizedBlock(Heading(heading_level(tag), inlines))
         [] tag = "blockquote" ->
                LET blocks == IF ctx.blocks = <<>> /\ ~inlines_are_blank(inlines)
                              THEN <<Paragraph(inlines)>> ELSE ctx.blocks
                IN IF blocks = <<>> THEN FinalizedNone
                   ELSE FinalizedBlock(BlockQuote(blocks))
         [] tag = "ul" ->
                IF ctx.list_items = <<>> THEN FinalizedNone
                ELSE FinalizedBlock(List(FALSE, U32(0, 1), ctx.list_items))
         [] tag = "ol" ->
                IF ctx.list_items = <<>> THEN FinalizedNone
                ELSE FinalizedBlock(List(TRUE, unwrap_or(ctx.attrs.start, U32(0, 1)),
                                         ctx.list_items))
         [] tag = "li" ->
                FinalizedBlock(Document(IF ctx.blocks = <<>> THEN <<Paragraph(inlines)>>
                                        ELSE ctx.blocks))
         [] tag = "pre" ->
                FinalizedBlock(CodeBlock(language_of(ctx.attrs.class), code_text,
                                         opts.code_block_style = "Fenced"))
         [] tag = "code" ->
                IF text = <<>> THEN FinalizedNone ELSE FinalizedInline(Code(text))
         [] tag \in {"strong", "b"} ->
                IF inlines_are_blank(inlines) THEN FinalizedNone
                ELSE FinalizedInline(Strong(inlines))
         [] tag \in {"em", "i"} ->
                IF inlines_are_blank(inlines) THEN FinalizedNone
                ELSE FinalizedInline(Emphasis(inlines))
         [] tag = "a" ->
                IF href = <<>> /\ ctx.attrs.title = None
                THEN (IF Len(inlines) = 1 THEN FinalizedInline(inlines[1])
                      ELSE FinalizedNone)
                ELSE FinalizedInline(Link(inlines, href, ctx.attrs.title))
         [] tag = "table" ->
                IF ctx.table_headers = <<>> /\ ctx.table_rows = <<>> THEN FinalizedNone
                ELSE IF ctx.table_headers = <<>>
                     THEN FinalizedBlock(Table(Head(ctx.table_rows), Tail(ctx.table_rows)))
                     ELSE FinalizedBlock(Table(ctx.table_headers, ctx.table_rows))
         [] tag \in ContainerTags \cup {"thead", "tbody", "tr", "td", "th"} ->
                preserve_content(ctx)
         [] tag \in InlineContainerTags ->
                IF Len(inlines) = 1 THEN FinalizedInline(inlines[1])
                ELSE IF inlines = <<>> THEN FinalizedNone
                ELSE FinalizedInline(Text(concat([i \in 1..Len(inlines) |->
                                                     inline_to_text(inlines[i])])))
         [] OTHER -> preserve_content(ctx)

\* finalize leaving out the inlines of a context that has blocks
finalize_blocks_only(st) ==
    LET root == st[Len(st)]
    IN IF root.blocks = <<>>
       THEN (IF inlines_are_blank(root.inlines) THEN Document(<<>>)
             ELSE Paragraph(root.inlines))
       ELSE IF Len(root.blocks) = 1 THEN root.blocks[1]
       ELSE Document(root.blocks)

\* ParserState::finalize: self.stack.pop() is the context the Block is built from
finalize(st) ==
    LET root == st[Len(st)]
    IN IF root.blocks = <<>>
       THEN (IF inlines_are_blank(root.inlines) THEN Document(<<>>)
             ELSE Paragraph(root.inlines))
       ELSE IF Len(root.blocks) = 1 /\ root.inlines = <<>> THEN root.blocks[1]
       ELSE Document(IF inlines_are_blank(root.inlines) THEN root.blocks
                     ELSE Append(root.blocks, Paragraph(root.inlines)))

(***************************************************************************)
(* The events the handlers of html_to_ast see for a document, depth first: *)
(* the start tag with its attributes, the text chunks, and the end tag if  *)
(* the markup reaches one.  The end tag handler is registered only behind  *)
(* push_element: the end tags of skipped tags and of br, hr and img call   *)
(* no handler.                                                             *)
(***************************************************************************)
OpenEvent(tag, attributes) == [ev |-> "open", tag |-> tag, attributes |-> attributes]
TextEvent(text) == [ev |-> "text", text |-> text]
CloseEvent == [ev |-> "close"]

RECURSIVE EventsOf(_)
EventsOf(node) ==
    LET sub == concat([i \in 1..Len(children_of(node)) |-> EventsOf(children_of(node)[i])])
    IN CASE node.node_type = "Text" -> <<TextEvent(node.node_value)>>
         [] node.node_type = "Element" ->
                <<OpenEvent(node.node_name, node.attributes)>> \o sub
                    \o (IF node.end_tag /\ node.node_name \notin SkippedTags \cup {"br", "hr", "img"}
                        THEN <<CloseEvent>> ELSE <<>>)
         [] OTHER -> sub

(***************************************************************************)
(* Documents given to both converters.                                     *)
(***************************************************************************)
El(tag, children) == ElementNode(tag, NoAttrs, children, TRUE)
Unclosed(tag, children) == ElementNode(tag, NoAttrs, children, FALSE)
Void(tag, attrs) == ElementNode(tag, attrs, <<>>, FALSE)
WithAttrs(tag, attrs, children) == ElementNode(tag, attrs, children, TRUE)

Tlang == LanguagePrefix \o <<"r">>

InlineNodes ==
    {TextNode(Ta), TextNode(<<" ">>),
     El("strong", <<TextNode(Ta)>>),
     WithAttrs("a", [NoAttrs EXCEPT !.href = Some(Turl)], <<TextNode(Ta)>>),
     Void("img", [NoAttrs EXCEPT !.src = Some(Turl), !.alt = Some(Ta)]),
     El("code", <<TextNode(Ta)>>)}

\* a parsed tree has no two text nodes side by side
no_adjacent_text(c) ==
    \A i \in 1..(Len(c) - 1) : c[i].node_type # "Text" \/ c[i + 1].node_type # "Text"

ChildSeqs(S, n) == {c \in SeqsUpTo(S, n) : no_adjacent_text(c)}

InlineChildren == ChildSeqs(InlineNodes, MaxChildren)

ItemNodes ==
    {El("li", <<TextNode(Ta)>>), El("li", <<El("p", <<TextNode(Tb)>>)>>),
     El("li", <<El("strong", <<TextNode(Ta)>>)>>)}

ListNodes ==
    {El("ul", items) : items \in SeqsUpTo(ItemNodes, MaxItems)}
        \cup {WithAttrs("ol", [NoAttrs EXCEPT !.start = st], items) :
                 st \in {None, Some(<<"3">>), Some(<<"x">>)},
                 items \in SeqsUpTo(ItemNodes, MaxItems)}

PreNodes ==
    {El("pre", <<El("code", <<TextNode(Ta)>>)>>),
     El("pre", <<WithAttrs("code", [NoAttrs EXCEPT !.class = Some(Tlang)], <<TextNode(Ta)>>)>>),
     WithAttrs("pre", [NoAttrs EXCEPT !.class = Some(Tlang)], <<El("code", <<TextNode(Ta)>>)>>),
     El("pre", <<TextNode(<<"a", " ", " ", "*">>)>>)}

OtherNodes ==
    {El(tag, <<TextNode(<<"a", " ", " ", "*">>)>>) :
        tag \in HeadingTags \cup {"em", "i", "b", "a", "span", "div", "blockquote", "script", "x"}}
        \cup {Void("hr", NoAttrs), Void("br", NoAttrs), Void("img", NoAttrs),
              El("div", <<El("p", <<TextNode(Ta)>>), El("p", <<TextNode(Tb)>>)>>),
              El("span", <<TextNode(Ta), El("em", <<TextNode(Tb)>>)>>),
              El("table", <<El("tr", <<El("th", <<TextNode(Ta)>>)>>),
                            El("tr", <<El("td", <<TextNode(Tb)>>)>>)>>),
              El("table", <<El("thead", <<El("tr", <<El("th", <<TextNode(Ta)>>)>>)>>),
                            El("tbody", <<El("tr", <<El("td", <<TextNode(Tb)>>)>>)>>)>>)}

TopNodes ==
    {El("p", <<TextNode(Ta)>>), TextNode(Tb), El("strong", <<TextNode(Ta)>>),
     El("ul", <<El("li", <<TextNode(Ta)>>)>>), Void("input", NoAttrs)}

\* documents whose markup ends inside an element
UnclosedDocs ==
    {Unclosed("p", <<TextNode(Ta)>>),
     DocumentFragment(<<El("p", <<TextNode(Ta)>>), Unclosed("p", <<TextNode(Tb)>>)>>),
     DocumentFragment(<<El("h1", <<TextNode(Ta)>>), TextNode(Tb), Unclosed("strong", <<>>)>>),
     DocumentFragment(<<TextNode(Ta), Unclosed("em", <<TextNode(Tb)>>)>>),
     El("div", <<El("p", <<TextNode(Ta)>>), Unclosed("p", <<TextNode(Tb)>>)>>)}

\* documents with script, style, noscript and template elements
ElidedDocs ==
    {El(tag, <<TextNode(Tb)>>) : tag \in SkippedTags}
        \cup {El(tag, <<TextNode(Ta), El("script", <<TextNode(Tb)>>)>>) : tag \in {"p", "h1", "div"}}
        \cup {El("div", <<El("p", <<TextNode(Ta)>>), El("style", <<TextNode(Tb)>>)>>),
              El("p", <<El("strong", <<El("noscript", <<TextNode(Tb)>>), TextNode(Ta)>>)>>),
              DocumentFragment(<<El("template", <<TextNode(Tb)>>), El("p", <<TextNode(Ta)>>)>>)}

\* documents with br, hr and img below the root
VoidDocs ==
    {El("p", <<TextNode(Ta), Void("br", NoAttrs)>>),
     El("div", <<El("p", <<TextNode(Ta)>>), Void("hr", NoAttrs)>>),
     El("p", <<Void("img", [NoAttrs EXCEPT !.src = Some(<<>>), !.alt = Some(Ta)])>>),
     El("p", <<Void("img", [NoAttrs EXCEPT !.alt = Some(Ta)])>>),
     El("p", <<Void("img", [NoAttrs EXCEPT !.src = Some(Turl), !.title = Some(Tb)])>>),
     Void("img", [NoAttrs EXCEPT !.src = Some(<<>>)])}

\* containers that receive text and then a block
MixedContainerDocs ==
    {El(tag, <<TextNode(Ta), El("p", <<TextNode(Tb)>>)>>) :
        tag \in {"div", "section", "blockquote", "x"}}

Docs ==
    {El(tag, c) : tag \in {"p", "h2"}, c \in InlineChildren}
        \cup ListNodes \cup PreNodes \cup OtherNodes \cup UnclosedDocs \cup ElidedDocs
        \cup VoidDocs \cup MixedContainerDocs
        \cup {DocumentFragment(c) : c \in ChildSeqs(TopNodes, MaxChildren)}

\* table elements: rows of th and td cells, directly or in thead and tbody
Rth == El("tr", <<El("th", <<TextNode(Ta)>>)>>)
Rtd == El("tr", <<El("td", <<TextNode(Tb)>>)>>)
Rmix == El("tr", <<El("td", <<TextNode(Ta)>>), El("th", <<TextNode(Tb)>>)>>)
Rempty == El("tr", <<>>)

TableDocs ==
    {El("table", rs) : rs \in SeqsUpTo({Rth, Rtd, Rmix, Rempty}, 2)}
        \cup {El("table", <<Rtd, Rmix, Rth>>), El("table", <<Rth, Rtd, Rth>>)}
        \cup {El("table", <<El("thead", h), El("tbody", b)>>) :
                 h \in {<<>>, <<Rth>>, <<Rtd, Rth>>, <<Rempty, Rth>>},
                 b \in {<<>>, <<Rtd>>, <<Rtd, Rmix>>, <<Rempty>>}}
        \cup {El("table", <<El("thead", <<Rth>>), El("thead", <<Rmix>>), El("tbody", <<Rtd>>)>>),
              El("table", <<El("tbody", <<Rtd, Rth>>)>>),
              El("table", <<El("tbody", <<Rtd>>), El("tbody", <<Rmix>>)>>),
              El("table", <<El("thead", <<Rth>>)>>),
              El("table", <<TextNode(Ta)>>),
              El("div", <<El("table", <<Rempty>>), El("p", <<TextNode(Ta)>>)>>),
              El("div", <<El("table", <<Rempty, Rtd>>), El("p", <<TextNode(Ta)>>)>>)}

\* lists whose items mix text, inline elements and blocks, and lists with
\* children that are not li elements
MixedItemDocs ==
    {El("ul", <<El("li", <<TextNode(Ta), El("strong", <<TextNode(Tb)>>)>>)>>),
     El("ol", <<El("li", <<El("em", <<TextNode(Ta)>>), TextNode(Tb)>>),
                El("li", <<El("p", <<TextNode(Tb)>>)>>)>>),
     El("ul", <<El("li", <<>>)>>),
     El("ul", <<TextNode(Ta), El("li", <<TextNode(Tb)>>)>>),
     El("ul", <<El("div", <<El("li", <<TextNode(Ta)>>)>>), El("li", <<TextNode(Tb)>>)>>)}

TreeDocs == Docs \cup TableDocs \cup MixedItemDocs

(***************************************************************************)
(* convert as an operation: one call on one Node tree (convert.rs).        *)
(***************************************************************************)
ConvertInit ==
    /\ doc \in TreeDocs
    /\ options \in OptionsSet
    /\ events = <<>> /\ stack = <<>> /\ result = None
    /\ SerIdle /\ RulesIdle

\* convert returns
Convert ==
    /\ doc # <<>> /\ events = <<>> /\ stack = <<>> /\ result = None
    /\ result' = Some(convert(doc, options))
    /\ UNCHANGED <<doc, events, stack, serVars, ruleVars>>

ConvertNext == Convert

SpecConvert == ConvertInit /\ [][ConvertNext]_vars

(***************************************************************************)
(* html_to_ast as a state machine: one step per handler call, then the     *)
(* finalize after rewrite_str has returned.                                *)
(***************************************************************************)
Init ==
    /\ doc \in Docs
    /\ options \in OptionsSet
    /\ events = EventsOf(doc)
    /\ stack = ParserState_new
    /\ result = None
    /\ SerIdle /\ RulesIdle

\* element!("*", ...): skipped tags, the tags handled at once, or a new context
ElementHandler ==
    /\ result = None /\ events # <<>> /\ Head(events).ev = "open"
    /\ LET tag == Head(events).tag
           attrs == ElementAttrs(Head(events).attributes)
       IN stack' =
            CASE tag \in SkippedTags -> stack
              [] tag = "br" -> add_inline(stack, LineBreak)
              [] tag = "hr" -> add_block(stack, ThematicBreak)
              [] tag = "img" ->
                    IF attrs.src # None /\ attrs.src[1] # <<>>
                    THEN add_inline(stack, Image(unwrap_or(attrs.alt, <<>>), attrs.src[1],
                                                 attrs.title))
                    ELSE stack
              [] OTHER -> push_element(stack, tag, attrs)
    /\ events' = Tail(events)
    /\ UNCHANGED <<doc, result, serVars, ruleVars>>

\* text!("*", ...)
TextHandler ==
    /\ result = None /\ events # <<>> /\ Head(events).ev = "text"
    /\ stack' = add_text(stack, Head(events).text)
    /\ events' = Tail(events)
    /\ UNCHANGED <<doc, result, serVars, ruleVars>>

\* the end tag handler registered by the element handler
EndTagHandler ==
    /\ result = None /\ events # <<>> /\ Head(events).ev = "close"
    /\ LET popped == pop_element(stack)
           fin == finalize_element(popped.ctx[1], options)
       IN stack' =
            IF popped.ctx = None THEN stack
            ELSE CASE fin.kind = "Block" -> add_block(popped.stack, fin.v)
                   [] fin.kind = "Inline" -> add_inline(popped.stack, fin.v)
                   [] OTHER -> popped.stack
    /\ events' = Tail(events)
    /\ UNCHANGED <<doc, result, serVars, ruleVars>>

\* rewrite_str returned Ok: state.finalize()
Finalize ==
    /\ result = None /\ events = <<>>
    /\ result' = Some(finalize(stack))
    /\ stack' = SubSeq(stack, 1, Len(stack) - 1)
    /\ UNCHANGED <<doc, events, serVars, ruleVars>>

Next == ElementHandler \/ TextHandler \/ EndTagHandler \/ Finalize

Spec == Init /\ [][Next]_vars

(***************************************************************************)
(* The rule engine (rules/mod.rs, rules/rule.rs, rules/commonmark.rs) and  *)
(* the service that walks a node tree with it (service.rs).                *)
(***************************************************************************)
NodeRef(node, parent_tag) == [node |-> node, parent_tag |-> parent_tag]

TagName(t) == [kind |-> "TagName", tag |-> t]
TagNames(ts) == [kind |-> "TagNames", tags |-> ts]
Predicate(f) == [kind |-> "Predicate", f |-> f]

Rule(filter, replacement) == [filter |-> filter, replacement |-> replacement]

has_code_child(nr) == SelectSeq(element_children(nr.node), is_code_element) # <<>>

\* the closures given to Filter::predicate, by name; "any_element" is a closure of
\* the caller that accepts every element
predicate(f, tag, nr, opts) ==
    CASE f = "indented_code_block" ->
            tag = "pre" /\ has_code_child(nr) /\ opts.code_block_style = "Indented"
      [] f = "fenced_code_block" ->
            tag = "pre" /\ has_code_child(nr) /\ opts.code_block_style = "Fenced"
      [] f = "inline_link" ->
            tag = "a" /\ nr.node.attributes.href # None /\ opts.link_style = "Inlined"
      [] f = "reference_link" ->
            tag = "a" /\ nr.node.attributes.href # None /\ opts.link_style = "Referenced"
      [] f = "code" -> tag = "code" /\ (nr.parent_tag = None \/ nr.parent_tag[1] # "pre")
      [] f = "any_element" -> TRUE

matches(filter, tag, nr, opts) ==
    CASE filter.kind = "TagName" -> tag = filter.tag
      [] filter.kind = "TagNames" -> \E i \in 1..Len(filter.tags) : filter.tags[i] = tag
      [] filter.kind = "Predicate" -> predicate(filter.f, tag, nr, opts)

commonmark_rules ==
    <<Rule(TagName("p"), "paragraph_rule"),
      Rule(TagName("br"), "line_break_rule"),
      Rule(TagNames(<<"h1", "h2", "h3", "h4", "h5", "h6">>), "heading_rule"),
      Rule(TagName("blockquote"), "blockquote_rule"),
      Rule(TagNames(<<"ul", "ol">>), "list_rule"),
      Rule(TagName("li"), "list_item_rule"),
      Rule(Predicate("indented_code_block"), "indented_code_block_rule"),
      Rule(Predicate("fenced_code_block"), "fenced_code_block_rule"),
      Rule(TagName("hr"), "horizontal_rule"),
      Rule(Predicate("inline_link"), "inline_link_rule"),
      Rule(Predicate("reference_link"), "reference_link_rule"),
      Rule(TagNames(<<"em", "i">>), "emphasis_rule"),
      Rule(TagNames(<<"strong", "b">>), "strong_rule"),
      Rule(Predicate("code"), "code_rule"),
      Rule(TagName("img"), "image_rule")>>

\* str::replace(from, to): the matches of from, left to right without overlap
RECURSIVE str_replace(_, _, _)
str_replace(s, from, to) ==
    IF s = <<>> THEN <<>>
    ELSE IF has_prefix(s, from) THEN to \o str_replace(SubSeq(s, Len(from) + 1, Len(s)), from, to)
    ELSE <<Head(s)>> \o str_replace(Tail(s), from, to)

\* lines joined by "\n", each behind the prefix
prefixed_lines(ls, prefix) ==
    concat([i \in 1..Len(ls) |-> (IF i > 1 THEN <<NL>> ELSE <<>>) \o prefix \o ls[i]])

clean_attribute(value) == IF value = None THEN <<>> ELSE trim(value[1])

block_text(s) == <<NL, NL>> \o s \o <<NL, NL>>

max_consecutive_backticks(s) ==
    LET run(i) == i - set_max({0} \cup {j \in 1..i : s[j] # Backtick})
    IN set_max({0} \cup {run(i) : i \in 1..Len(s)})

item_text(content) ==
    str_replace(str_replace(trim(content), <<NL, NL, NL>>, <<NL, NL>>), <<NL>>,
                <<NL, " ", " ", " ", " ">>)

\* Rule::replace: the replacement closure of the rule, by name; "custom_a" and
\* "custom_b" are closures of the caller
replace(rule, nr, content, opts) ==
    LET r == rule.replacement
        tag == tag_name(nr.node)
        trimmed == trim(content)
        attrs == nr.node.attributes
        code_nodes == SelectSeq(element_children(nr.node), is_code_element)
        code_content == IF code_nodes = <<>> THEN <<>> ELSE text_content(code_nodes[1])
        href == clean_attribute(attrs.href)
        text == text_content(nr.node)
        ticks == repeat(<<Backtick>>, max(max_consecutive_backticks(text) + 1, 1))
    IN CASE r = "paragraph_rule" -> block_text(trimmed)
         [] r = "line_break_rule" -> <<" ", " ", NL>>
         [] r = "heading_rule" ->
                IF trimmed = <<>> THEN <<>>
                ELSE IF opts.heading_style = "Setext" /\ heading_level(tag) <= 2
                     THEN block_text(trimmed \o <<NL>>
                               \o repeat(IF heading_level(tag) = 1 THEN <<"=">> ELSE <<"-">>,
                                         len(trimmed)))
                     ELSE block_text(repeat(<<"#">>, heading_level(tag)) \o <<" ">> \o trimmed)
         [] r = "blockquote_rule" ->
                IF trimmed = <<>> THEN <<>>
                ELSE block_text(prefixed_lines(lines(trimmed), <<">", " ">>))
         [] r = "list_rule" ->
                IF nr.parent_tag = Some("li") THEN <<NL>> \o trimmed ELSE block_text(trimmed)
         [] r = "list_item_rule" ->
                (IF nr.parent_tag = Some("ol") THEN <<"1", ".", " ", " ">>
                 ELSE <<opts.bullet_list_marker, " ", " ", " ">>)
                    \o item_text(content) \o <<NL>>
         [] r = "indented_code_block_rule" ->
                block_text(prefixed_lines(lines(code_content), <<" ", " ", " ", " ">>))
         [] r = "fenced_code_block_rule" ->
                IF code_nodes = <<>> THEN <<>>
                ELSE block_text(opts.fence
                         \o unwrap_or(language_of(code_nodes[1].attributes.class), <<>>)
                         \o <<NL>> \o trim_end(code_content) \o <<NL>> \o opts.fence)
         [] r = "horizontal_rule" -> block_text(opts.hr)
         [] r = "inline_link_rule" ->
                IF href = <<>> /\ attrs.title = None THEN content
                ELSE <<"[">> \o content \o <<"]", "(">> \o href \o title_part(attrs.title)
                         \o <<")">>
         [] r = "reference_link_rule" ->
                IF href = <<>> THEN content
                ELSE <<"[">> \o content \o <<"]", "(">> \o href \o title_part(attrs.title)
                         \o <<")">>
         [] r = "emphasis_rule" ->
                IF trimmed = <<>> THEN <<>>
                ELSE <<opts.em_delimiter>> \o content \o <<opts.em_delimiter>>
         [] r = "strong_rule" ->
                IF trimmed = <<>> THEN <<>>
                ELSE opts.strong_delimiter \o content \o opts.strong_delimiter
         [] r = "code_rule" ->
                IF text = <<>> THEN <<>>
                ELSE IF /\ max_consecutive_backticks(text) > 0
                        /\ \/ starts_with(text, Backtick) \/ ends_with(text, Backtick)
                           \/ starts_with(text, " ") \/ ends_with(text, " ")
                     THEN ticks \o <<" ">> \o text \o <<" ">> \o ticks
                     ELSE ticks \o text \o ticks
         [] r = "image_rule" ->
                IF clean_attribute(attrs.src) = <<>> THEN <<>>
                ELSE <<"!", "[">> \o clean_attribute(attrs.alt) \o <<"]", "(">>
                         \o clean_attribute(attrs.src) \o title_part(attrs.title) \o <<")">>
         [] r = "custom_a" -> <<"A", "(">> \o content \o <<")">>
         [] r = "custom_b" -> <<"B", "(", tag, ")">>

Rules_new ==
    [custom_rules |-> <<>>, keep_rules |-> <<>>, remove_rules |-> <<>>,
     commonmark_rules |-> commonmark_rules]

\* IndexMap::insert: a key already in the map keeps its place and gets the new rule
add(rs, key, rule) ==
    LET at == {i \in 1..Len(rs.custom_rules) : rs.custom_rules[i].key = key}
    IN IF at = {}
       THEN [rs EXCEPT !.custom_rules = Append(@, [key |-> key, rule |-> rule])]
       ELSE [rs EXCEPT !.custom_rules[set_min(at)].rule = rule]

keep(rs, filter) == [rs EXCEPT !.keep_rules = Append(@, filter)]

remove(rs, filter) == [rs EXCEPT !.remove_rules = Append(@, filter)]

custom_values(rs) == [i \in 1..Len(rs.custom_rules) |-> rs.custom_rules[i].rule]

rule_matches(rs, nr, opts) ==
    \E i \in 1..Len(custom_values(rs) \o rs.commonmark_rules) :
        matches((custom_values(rs) \o rs.commonmark_rules)[i].filter, tag_name(nr.node), nr, opts)

\* the built-in list is searched before the custom rules
for_element_builtin_first(rs, nr, opts) ==
    LET all == rs.commonmark_rules \o custom_values(rs)
        hits == {i \in 1..Len(all) : matches(all[i].filter, tag_name(nr.node), nr, opts)}
    IN IF hits = {} THEN None ELSE Some(all[set_min(hits)])

for_element(rs, nr, opts) ==
    LET tag == tag_name(nr.node)
        custom == custom_values(rs)
        custom_hits == {i \in 1..Len(custom) : matches(custom[i].filter, tag, nr, opts)}
        builtin_hits == {i \in 1..Len(rs.commonmark_rules) :
                            matches(rs.commonmark_rules[i].filter, tag, nr, opts)}
    IN IF custom_hits # {} THEN Some(custom[set_min(custom_hits)])
       ELSE IF builtin_hits # {} THEN Some(rs.commonmark_rules[set_min(builtin_hits)])
       ELSE None

\* a keep filter wins over a matching rule
should_keep_over_rules(rs, nr, opts) ==
    \E i \in 1..Len(rs.keep_rules) : matches(rs.keep_rules[i], tag_name(nr.node), nr, opts)

should_keep(rs, nr, opts) ==
    IF rule_matches(rs, nr, opts) THEN FALSE
    ELSE \E i \in 1..Len(rs.keep_rules) : matches(rs.keep_rules[i], tag_name(nr.node), nr, opts)

should_remove(rs, nr, opts) ==
    IF should_keep(rs, nr, opts) THEN FALSE
    ELSE IF rule_matches(rs, nr, opts) THEN FALSE
    ELSE \E i \in 1..Len(rs.remove_rules) :
            matches(rs.remove_rules[i], tag_name(nr.node), nr, opts)

VoidElements ==
    {"area", "base", "br", "col", "command", "embed", "hr", "img", "input", "keygen",
     "link", "meta", "param", "source", "track", "wbr"}

escape_html_attr(s) ==
    concat([i \in 1..Len(s) |->
               CASE s[i] = "&" -> <<"&", "a", "m", "p", ";">>
                 [] s[i] = "\"" -> <<"&", "q", "u", "o", "t", ";">>
                 [] s[i] = "<" -> <<"&", "l", "t", ";">>
                 [] s[i] = ">" -> <<"&", "g", "t", ";">>
                 [] OTHER -> <<s[i]>>])

AttrNames == <<"href", "src", "alt", "title", "start", "class">>

\* name="value" for each attribute the node has, a bare name for an empty value
attributes_string(node) ==
    LET present == SelectSeq(AttrNames, LAMBDA n : node.attributes[n] # None)
        one(n) == IF node.attributes[n][1] = <<>> THEN <<n>>
                  ELSE <<n, "=", "\"">> \o escape_html_attr(node.attributes[n][1]) \o <<"\"">>
    IN concat([i \in 1..Len(present) |-> (IF i > 1 THEN <<" ">> ELSE <<>>) \o one(present[i])])

RECURSIVE outer_html(_)
outer_html(node) ==
    LET inner == concat([i \in 1..Len(children_of(node)) |-> outer_html(children_of(node)[i])])
        attrs == attributes_string(node)
        open == <<"<", tag_name(node)>> \o (IF attrs = <<>> THEN <<>> ELSE <<" ">> \o attrs)
                    \o <<">">>
    IN CASE node.node_type = "Text" -> node.node_value
         [] node.node_type = "Element" ->
                IF tag_name(node) \in VoidElements THEN open
                ELSE open \o inner \o <<"<", "/", tag_name(node), ">">>
         [] OTHER -> inner

keep_replacement(nr) == outer_html(nr.node)

escape_text(text) == escape_markdown(text)

RECURSIVE process_node(_, _, _, _), process_children(_, _, _, _)
RECURSIVE process_ordered_list(_, _, _, _), process_element(_, _, _, _)

process_node(rs, node, parent_tag, opts) ==
    CASE node.node_type = "Text" -> escape_text(collapse_whitespace(node.node_value))
      [] node.node_type = "Element" -> process_element(rs, node, parent_tag, opts)
      [] OTHER -> process_children(rs, node, parent_tag, opts)

process_children(rs, node, parent_tag, opts) ==
    LET parent == IF is_element(node) THEN Some(tag_name(node)) ELSE parent_tag
        cs == children_of(node)
    IN IF is_element(node) /\ tag_name(node) = "ol"
       THEN process_ordered_list(rs, node, parent, opts)
       ELSE concat([i \in 1..Len(cs) |-> process_node(rs, cs[i], parent, opts)])

process_ordered_list(rs, node, parent_tag, opts) ==
    LET cs == children_of(node)
        is_item(i) == is_element(cs[i]) /\ tag_name(cs[i]) = "li"
        index(i) == 1 + Cardinality({j \in 1..(i - 1) : is_item(j)})
    IN concat([i \in 1..Len(cs) |->
                  IF is_item(i)
                  THEN to_string(U32(0, index(i))) \o <<".", " ", " ">>
                           \o item_text(process_children(rs, cs[i], Some("ol"), opts))
                           \o <<NL>>
                  ELSE process_node(rs, cs[i], parent_tag, opts)])

process_element(rs, node, parent_tag, opts) ==
    LET node_ref == NodeRef(node, parent_tag)
        content == process_children(rs, node, parent_tag, opts)
    IN IF should_remove(rs, node_ref, opts) THEN <<>>
       ELSE IF should_keep(rs, node_ref, opts) THEN keep_replacement(node_ref)
       ELSE IF for_element(rs, node_ref, opts) # None
            THEN replace(for_element(rs, node_ref, opts)[1], node_ref, content, opts)
            ELSE content

(***************************************************************************)
(* The service as a state machine: rules are registered at any time, and   *)
(* process_element returns the text of one element.  A registration drops  *)
(* the text returned before it.                                            *)
(***************************************************************************)
Keys == {"k1", "k2"}

CustomRules ==
    {Rule(TagName("x"), "custom_a"), Rule(TagNames(<<"x", "p">>), "custom_b"),
     Rule(Predicate("any_element"), "custom_a")}

KeepFilters == {TagName("x"), TagNames(<<"p", "y">>)}
RemoveFilters == {TagName("x"), TagNames(<<"y", "z">>)}

RuleElements ==
    {El("x", <<TextNode(Ta)>>),
     El("p", <<TextNode(<<" ", "a", " ">>)>>),
     El("y", <<El("x", <<TextNode(Tb)>>), TextNode(<<"*">>)>>),
     El("z", <<TextNode(Ta)>>),
     El("ol", <<El("li", <<TextNode(Ta)>>), El("li", <<TextNode(Tb)>>)>>),
     WithAttrs("a", [NoAttrs EXCEPT !.href = Some(Turl)], <<TextNode(Ta)>>)}

RulesInit ==
    /\ rules = Rules_new
    /\ options \in OptionsSet
    /\ element = <<>>
    /\ text_out = None
    /\ block = Document(<<>>) /\ overflow_checks = FALSE
    /\ raw = <<>> /\ output = <<>> /\ ser_pc = "idle"
    /\ StreamIdle

\* TurndownService::add_rule
AddRule ==
    /\ \E key \in Keys, rule \in CustomRules : rules' = add(rules, key, rule)
    /\ element' = <<>> /\ text_out' = None
    /\ UNCHANGED <<serVars, streamVars>>

\* TurndownService::keep
Keep ==
    /\ Len(rules.keep_rules) < MaxFilters
    /\ \E filter \in KeepFilters : rules' = keep(rules, filter)
    /\ element' = <<>> /\ text_out' = None
    /\ UNCHANGED <<serVars, streamVars>>

\* TurndownService::remove
Remove ==
    /\ Len(rules.remove_rules) < MaxFilters
    /\ \E filter \in RemoveFilters : rules' = remove(rules, filter)
    /\ element' = <<>> /\ text_out' = None
    /\ UNCHANGED <<serVars, streamVars>>

\* TurndownService::process_element on the root of a tree
ProcessElement ==
    /\ \E e \in RuleElements :
          /\ element' = e
          /\ text_out' = Some(process_element(rules, e, None, options))
    /\ UNCHANGED <<rules, serVars, streamVars>>

RulesNext == AddRule \/ Keep \/ Remove \/ ProcessElement

SpecRules == RulesInit /\ [][RulesNext]_vars

(***************************************************************************)
(* Properties of serialize.                                                *)
(***************************************************************************)
\* the k-th smallest element of a set of numbers
kth(S, k) == CHOOSE p \in S : Cardinality({q \in S : q < p}) = k - 1

strip_spaces(s) == trim_matches_start(s, LAMBDA c : c = " ")

\* C3: flatten law: a Document holding the single non-Document block x serializes
\* to the same string as x itself
FlattenLaw ==
    (ser_pc = "done" /\ block.k # "Document")
        => serialize(Document(<<block>>), options) = output

\* C4: serialize is total: no call unwinds, whatever the containers, texts, optional
\* fields and ordered-list start values
SerializeTotal == ser_pc # "panicked"

not_newline(c) == c # NL
non_newlines(s) == SelectSeq(s, not_newline)

\* the lengths, in order, of the maximal runs of newlines of s that have a character
\* other than a newline on both sides
interior_runs(s) ==
    LET run_starts == {i \in 2..Len(s) : s[i] = NL /\ s[i - 1] # NL}
        run_end(i) == set_min({j \in i..(Len(s) + 1) : j = Len(s) + 1 \/ s[j] # NL})
        interior == {i \in run_starts : run_end(i) <= Len(s)}
    IN [k \in 1..Cardinality(interior) |-> run_end(kth(interior, k)) - kth(interior, k)]

\* C5: the returned string has no run of three newlines and neither begins nor ends
\* with a newline; it is the serialized text with every inner run of newlines cut
\* to at most two and nothing else changed
SerializeNewlines ==
    ser_pc = "done" =>
        /\ ~\E i \in 1..(Len(output) - 2) :
               output[i] = NL /\ output[i + 1] = NL /\ output[i + 2] = NL
        /\ ~starts_with(output, NL) /\ ~ends_with(output, NL)
        /\ non_newlines(output) = non_newlines(raw)
        /\ interior_runs(output) =
               [k \in 1..Len(interior_runs(raw)) |->
                   IF interior_runs(raw)[k] >= 3 THEN 2 ELSE interior_runs(raw)[k]]

\* C5 witness: a serialized text with an inner run of three or more newlines, and
\* newlines at its end, has been post-processed
SerializeNewlinesWitness ==
    /\ ser_pc = "done"
    /\ \E k \in 1..Len(interior_runs(raw)) : interior_runs(raw)[k] >= 3
    /\ ends_with(raw, NL)

\* C8: a non-blank Heading is its text, a newline and as many '=' (level 1) or '-'
\* (level 2) as the text has characters when the style is Setext and the level is
\* at most 2, and `level` '#', a space and the text otherwise
HeadingRendering ==
    (ser_pc = "done" /\ block.k = "Heading"
        /\ trim(serialize_inlines(block.c, options)) # <<>>)
        => LET text == serialize_inlines(block.c, options)
           IN raw = (IF options.heading_style = "Setext" /\ block.level <= 2
                     THEN text \o <<NL>>
                              \o repeat(<<IF block.level = 1 THEN "=" ELSE "-">>, Len(text))
                     ELSE repeat(<<"#">>, block.level) \o <<" ">> \o text)
                        \o <<NL, NL>>

\* a list whose items are each one Paragraph of one Text without a newline
flat_list(l) ==
    \A j \in 1..Len(l.items) :
        /\ Len(l.items[j]) = 1
        /\ l.items[j][1].k = "Paragraph"
        /\ Len(l.items[j][1].c) = 1
        /\ l.items[j][1].c[1].k = "Text"
        /\ l.items[j][1].c[1].s # <<>>
        /\ ~contains(l.items[j][1].c[1].s, NL)

\* the marker the item at 0-based position i is to carry
expected_marker(l, i, opts) ==
    IF l.ordered THEN to_string(exact_add(l.start, i)) \o <<".", " ", " ">>
    ELSE <<opts.bullet_list_marker, " ", " ", " ">>

\* the lines of a flat list: marker, then the item's text
expected_lines(l, opts) ==
    [j \in 1..Len(l.items) |-> expected_marker(l, j - 1, opts) \o l.items[j][1].c[1].s]

\* qs occurs in ps as consecutive elements
occurs_in(qs, ps) ==
    \E off \in 0..(Len(ps) - Len(qs)) : \A j \in 1..Len(qs) : ps[off + j] = qs[j]

\* C9: the item at 0-based position i of an ordered list carries the decimal number
\* start + i, a '.' and two spaces, an unordered item the bullet and three spaces,
\* for a top-level list and for a list inside an item alike
ListNumbering ==
    (ser_pc = "done" /\ block.k = "List") =>
        /\ flat_list(block) =>
               lines(raw) = Append(expected_lines(block, options), <<>>)
        /\ \A j \in 1..Len(block.items) : \A m \in 1..Len(block.items[j]) :
               LET l == block.items[j][m]
               IN (l.k = "List" /\ flat_list(l)) =>
                      occurs_in(expected_lines(l, options),
                                [n \in 1..Len(lines(raw)) |-> strip_spaces(lines(raw)[n])])

has_suffix(s, t) == Len(t) <= Len(s) /\ SubSeq(s, Len(s) - Len(t) + 1, Len(s)) = t

\* C10: a list inside an item of a top-level list (nesting level 1) starts on a new
\* line, its item lines carry exactly 4 spaces before the marker, and the second and
\* later lines of an item with several lines carry exactly the item's prefix width
NestedListLayout ==
    (ser_pc = "done" /\ block.k = "List") =>
        \A j \in 1..Len(block.items) :
            /\ \A m \in 1..Len(block.items[j]) :
                   LET l == block.items[j][m]
                   IN (l.k = "List" /\ flat_list(l)) =>
                          occurs_in([n \in 1..Len(l.items) |->
                                        repeat(<<" ">>, 4) \o expected_lines(l, options)[n]],
                                    lines(raw))
            /\ (Len(block.items[j]) = 1 /\ block.items[j][1] = Paragraph(<<Text(newline_run(1))>>))
                   => LET first == expected_marker(block, j - 1, options) \o Ta
                          second == repeat(<<" ">>, Len(expected_marker(block, j - 1, options)))
                                        \o Tb
                      IN \E n \in 1..(Len(lines(raw)) - 1) :
                             /\ has_suffix(lines(raw)[n], first)
                             /\ lines(raw)[n + 1] = second

(***************************************************************************)
(* Properties of the converters.                                           *)
(***************************************************************************)
SharedTags ==
    {"p", "strong", "b", "em", "i", "a", "img", "ul", "ol", "li", "pre", "code"}
        \cup HeadingTags

RECURSIVE elements_of(_)
elements_of(node) ==
    (IF is_element(node) THEN {node} ELSE {})
        \cup UNION {elements_of(children_of(node)[i]) : i \in 1..Len(children_of(node))}

only_shared_constructs(node) == \A e \in elements_of(node) : e.node_name \in SharedTags

\* every element's end tag is reached, img having none
all_closed(node) == \A e \in elements_of(node) : e.end_tag \/ e.node_name = "img"

\* C1: for a document built only from the shared constructs, with every element
\* closed, the Block of the streaming converter serializes to the same Markdown as
\* the Block of the tree converter under the same options
ConverterEquivalence ==
    (result # None /\ only_shared_constructs(doc) /\ all_closed(doc))
        => serialize(result[1], options) = serialize(convert(doc, options), options)

\* the blocks a finalized Block shows at its top
top_blocks(b) == IF b.k = "Document" THEN b.c ELSE <<b>>

\* C2: when the stream ends with elements still open, every block and every
\* non-blank inline attached to the root context is present in the Block that
\* finalize returns
FinalizeFromRoot ==
    (result # None /\ stack # <<>>)
        => LET root == stack[1]
               built == top_blocks(result[1])
           IN /\ \A i \in 1..Len(root.blocks) :
                    \E j \in 1..Len(built) : built[j] = root.blocks[i]
              /\ \A i \in 1..Len(root.inlines) :
                    inline_is_blank(root.inlines[i])
                        \/ \E j \in 1..Len(built) :
                              /\ built[j].k = "Paragraph"
                              /\ \E m \in 1..Len(built[j].c) : built[j].c[m] = root.inlines[i]

(***************************************************************************)
(* Properties of the rule engine.                                          *)
(***************************************************************************)
all_rules(rs) == custom_values(rs) \o rs.commonmark_rules

filter_hit(filters, nr) ==
    \E i \in 1..Len(filters) : matches(filters[i], tag_name(nr.node), nr, options)

matching_rules(rs, nr) ==
    {all_rules(rs)[i] : i \in {j \in 1..Len(all_rules(rs)) :
                                  matches(all_rules(rs)[j].filter, tag_name(nr.node), nr, options)}}

RuleLookupOrder ==
    /\ rules.commonmark_rules = commonmark_rules
    /\ \A e \in RuleElements :
          LET nr == NodeRef(e, None)
              hit(rule) == matches(rule.filter, tag_name(e), nr, options)
              custom == rules.custom_rules
              found == for_element(rules, nr, options)
              first_in(rs) ==
                  \E i \in 1..Len(rs) :
                      /\ hit(rs[i]) /\ \A j \in 1..(i - 1) : ~hit(rs[j])
                      /\ found = Some(rs[i])
          IN IF \E i \in 1..Len(custom) : hit(custom[i].rule)
             THEN first_in([i \in 1..Len(custom) |-> custom[i].rule])
             ELSE IF \E i \in 1..Len(commonmark_rules) : hit(commonmark_rules[i])
                  THEN first_in(commonmark_rules)
                  ELSE found = None

\* two custom rules are registered, both match the processed element, and so does
\* a built-in rule
RuleLookupOrderWitness ==
    /\ text_out # None
    /\ Len(rules.custom_rules) = 2
    /\ \A i \in 1..2 :
          matches(rules.custom_rules[i].rule.filter, tag_name(element),
                  NodeRef(element, None), options)
    /\ rules.custom_rules[1].rule # rules.custom_rules[2].rule
    /\ \E i \in 1..Len(commonmark_rules) :
          matches(commonmark_rules[i].filter, tag_name(element),
                  NodeRef(element, None), options)


(***************************************************************************)
(* Properties of inline code (serialize.rs, Inline::Code).                 *)
(***************************************************************************)
\* the rendering of inline code with a fence one longer than the longest run of
\* backticks in it, padded when it starts or ends with a backtick or a space
fenced_code(s) ==
    IF s = <<>> THEN <<>>
    ELSE LET fence == repeat(<<Backtick>>, max_consecutive_backticks(s) + 1)
             space == IF s[1] \in {Backtick, " "} \/ s[Len(s)] \in {Backtick, " "}
                      THEN <<" ">> ELSE <<>>
         IN fence \o space \o s \o space \o fence

is_code_paragraph(b) == b.k = "Paragraph" /\ Len(b.c) = 1 /\ b.c[1].k = "Code"

\* C11: a paragraph holding one inline code serializes to nothing when the code
\* is empty, and otherwise to the code between two runs of backticks one longer
\* than the longest run of backticks inside it, with one space of padding on
\* each side exactly when the code starts or ends with a backtick or a space
InlineCodeRendering ==
    (ser_pc = "done" /\ is_code_paragraph(block)) => output = fenced_code(block.c[1].s)


(***************************************************************************)
(* Properties of tables (serialize.rs, serialize_table).                   *)
(***************************************************************************)
\* the cells of a rendered table line: the text between consecutive bars,
\* without the space after the opening bar and the space before the closing one
rendered_cells(line) ==
    LET bars == {i \in 1..Len(line) : line[i] = "|"}
        bar(n) == CHOOSE p \in bars : Cardinality({q \in bars : q < p}) = n - 1
    IN [n \in 1..(Cardinality(bars) - 1) |-> SubSeq(line, bar(n) + 2, bar(n + 1) - 2)]

\* the rows that have a cell in column i
rows_with(rows, i) == {r \in 1..Len(rows) : i <= Len(rows[r])}

\* max(3, text length of the header cell, text length of every data cell)
width_bound(headers, rows, i) ==
    set_max({3, inlines_text_len(headers[i])}
                \cup {inlines_text_len(rows[r][i]) : r \in rows_with(rows, i)})

is_rendered_table(b) == b.k = "Table" /\ b.headers # <<>>

TableCellPadding ==
    (ser_pc = "done" /\ is_rendered_table(block)) =>
        LET ls == lines(output)
            cell(l, i) == rendered_cells(ls[l])[i]
        IN /\ \A i \in 1..Len(block.headers) :
                  /\ Len(cell(1, i)) = Len(cell(2, i))
                  /\ \A r \in rows_with(block.rows, i) : Len(cell(2 + r, i)) = Len(cell(2, i))
           /\ Len(ls[1]) = Len(ls[2])
           /\ \A r \in 1..Len(block.rows) :
                  Len(block.rows[r]) = Len(block.headers) => Len(ls[2 + r]) = Len(ls[2])


(***************************************************************************)
(* Properties of the blank predicate (ast.rs, is_blank).                   *)
(***************************************************************************)
\* blankness as stated: text and code by their trimmed content, containers by
\* their children, Image and ThematicBreak never; the remaining nodes as is_blank
RECURSIVE stated_inline_blank(_)
stated_inline_blank(i) ==
    CASE i.k \in {"Text", "Code"} -> trim(i.s) = <<>>
      [] i.k \in {"Strong", "Emphasis", "Link"} ->
            \A j \in 1..Len(i.c) : stated_inline_blank(i.c[j])
      [] i.k = "Image" -> FALSE
      [] OTHER -> inline_is_blank(i)

RECURSIVE stated_blank(_)
stated_blank(b) ==
    CASE b.k \in {"Document", "BlockQuote"} -> \A j \in 1..Len(b.c) : stated_blank(b.c[j])
      [] b.k \in {"Paragraph", "Heading"} -> \A j \in 1..Len(b.c) : stated_inline_blank(b.c[j])
      [] b.k = "List" ->
            \A j \in 1..Len(b.items) : \A m \in 1..Len(b.items[j]) :
                stated_blank(b.items[j][m])
      [] b.k = "CodeBlock" -> trim(b.code) = <<>>
      [] b.k = "Table" ->
            /\ \A h \in 1..Len(b.headers) :
                   \A j \in 1..Len(b.headers[h]) : stated_inline_blank(b.headers[h][j])
            /\ \A r \in 1..Len(b.rows) : \A c \in 1..Len(b.rows[r]) :
                   \A j \in 1..Len(b.rows[r][c]) : stated_inline_blank(b.rows[r][c][j])
      [] b.k = "ThematicBreak" -> FALSE
      [] OTHER -> is_blank(b)

\* C14: is_blank holds for a Text or code iff its trimmed content is empty, for
\* a container iff all of its children are blank, and never for an Image or a
\* ThematicBreak
BlankPredicate == is_blank(block) = stated_blank(block)


(***************************************************************************)
(* Properties of code blocks (serialize.rs, serialize_code_block).         *)
(***************************************************************************)
\* fence, language, newline, code, newline, fence
fenced_form(b, opts) ==
    opts.fence \o (IF b.language = None THEN <<>> ELSE b.language[1]) \o <<NL>> \o b.code
        \o <<NL>> \o opts.fence

\* every line of the code behind exactly 4 spaces
indented_lines(b) ==
    [j \in 1..Len(lines(b.code)) |-> <<" ", " ", " ", " ">> \o lines(b.code)[j]]

\* C15: a CodeBlock is rendered in fenced form (fence, language, newline, code,
\* newline, fence) iff its fenced flag is set or the code block style is Fenced;
\* otherwise the output is the lines of the code, each behind exactly 4 spaces,
\* and holds no fence
CodeBlockStyleSelection ==
    (ser_pc = "done" /\ block.k = "CodeBlock") =>
        IF block.fenced \/ options.code_block_style = "Fenced"
        THEN /\ raw = fenced_form(block, options) \o <<NL, NL>>
             /\ output = collapse_and_trim(fenced_form(block, options))
        ELSE /\ lines(output) = indented_lines(block)
             /\ ~contains(raw, Backtick)
             /\ raw # fenced_form(block, options) \o <<NL, NL>>

\* an unfenced block with a language was serialized under the Fenced style
CodeBlockStyleSelectionWitness ==
    /\ ser_pc = "done" /\ block.k = "CodeBlock"
    /\ ~block.fenced /\ options.code_block_style = "Fenced"
    /\ block.language # None /\ block.code = Ta
    /\ output = options.fence \o <<"r", NL>> \o Ta \o <<NL>> \o options.fence


(***************************************************************************)
(* Properties of the tree converter (convert.rs).                          *)
(***************************************************************************)
is_elided(node) == is_element(node) /\ tag_name(node) \in SkippedTags

\* the tree without its script, style, noscript and template elements
RECURSIVE without_elided(_)
without_elided(node) ==
    IF node.node_type = "Text" THEN node
    ELSE LET kept_child(c) == ~is_elided(c)
             kept == SelectSeq(node.children, kept_child)
         IN [node EXCEPT !.children = [j \in 1..Len(kept) |-> without_elided(kept[j])]]

\* C16: a script, style, noscript or template element contributes nothing to the
\* result of convert: as the root it gives the empty Document, and anywhere
\* below the root the result is that of the tree without the element
ElidedTagsContributeNothing ==
    result # None =>
        result[1] = IF is_elided(doc) THEN Document(<<>>)
                    ELSE convert(without_elided(doc), options)


is_table(node) == tag_name(node) = "table"
is_thead(node) == tag_name(node) = "thead"
is_tbody(node) == tag_name(node) = "tbody"

\* the rows of cells of the tr children of a node, without the rows of no cell
section_rows(node, opts) ==
    LET trs == SelectSeq(element_children(node), is_tr)
    IN SelectSeq([i \in 1..Len(trs) |-> row_cells(trs[i], opts, DefaultContext)],
                 LAMBDA r : r # <<>>)

\* a table of thead and tbody sections only, or of direct rows only
sectioned(node) ==
    /\ \A i \in 1..Len(children_of(node)) : tag_name(children_of(node)[i]) \in {"thead", "tbody"}
    /\ SelectSeq(children_of(node), is_thead) # <<>>

plain_rows(node) ==
    \A i \in 1..Len(children_of(node)) : tag_name(children_of(node)[i]) \in {"tr", "tbody"}

\* header and data rows as stated: the first row of the first thead over all
\* tbody rows; without thead the first direct row with a th over all other rows;
\* the first row promoted when no header was found
stated_table(node, opts) ==
    LET cs == children_of(node)
        theads == SelectSeq(cs, is_thead)
        head_trs == SelectSeq(element_children(theads[1]), is_tr)
        bodies == SelectSeq(cs, is_tbody)
        body_rows == concat([i \in 1..Len(bodies) |-> section_rows(bodies[i], opts)])
        trs == SelectSeq(SelectSeq(cs, is_tr),
                         LAMBDA t : row_cells(t, opts, DefaultContext) # <<>>)
        with_th == {i \in 1..Len(trs) : SelectSeq(element_children(trs[i]), is_th) # <<>>}
        first_th == set_min(with_th)
        found ==
            IF theads # <<>>
            THEN [headers |-> IF head_trs = <<>> THEN <<>>
                              ELSE row_cells(head_trs[1], opts, DefaultContext),
                  rows |-> body_rows]
            ELSE IF with_th # {}
            THEN [headers |-> row_cells(trs[first_th], opts, DefaultContext),
                  rows |-> [i \in 1..(Len(trs) - 1) |->
                               row_cells(trs[IF i < first_th THEN i ELSE i + 1], opts,
                                         DefaultContext)]]
            ELSE [headers |-> <<>>,
                  rows |-> body_rows
                            \o [i \in 1..Len(trs) |-> row_cells(trs[i], opts, DefaultContext)]]
    IN IF found.headers = <<>> /\ found.rows # <<>>
       THEN [headers |-> Head(found.rows), rows |-> Tail(found.rows)]
       ELSE found

\* C17: for a table of thead and tbody sections the header is the cells of the
\* first tr of the first thead and the data rows are the tbody rows; for a table
\* of direct rows the first row with a th cell is the header and all other rows
\* are data rows in document order; when no header was identified the first row
\* becomes the header
TableHeaderSelection ==
    (/\ result # None /\ is_table(doc)
     /\ sectioned(doc) \/ plain_rows(doc)
     /\ stated_table(doc, options).headers # <<>>) =>
        result[1] = Table(stated_table(doc, options).headers, stated_table(doc, options).rows)

\* the th and td elements of a tree
RECURSIVE cell_count(_)
cell_count(node) ==
    LET cs == children_of(node)
        RECURSIVE sum(_)
        sum(i) == IF i > Len(cs) THEN 0 ELSE cell_count(cs[i]) + sum(i + 1)
    IN (IF is_cell(node) THEN 1 ELSE 0) + sum(1)

\* the Table blocks of a block, at any depth
RECURSIVE tables_in(_)
tables_in(b) ==
    CASE b.k = "Table" -> {b}
      [] b.k \in {"Document", "BlockQuote"} -> UNION {tables_in(b.c[j]) : j \in 1..Len(b.c)}
      [] b.k = "List" ->
            UNION {UNION {tables_in(b.items[j][m]) : m \in 1..Len(b.items[j])} :
                      j \in 1..Len(b.items)}
      [] OTHER -> {}

\* C18: convert emits no Table for a table element without header and row
\* cells, every Table it emits has at least one header cell and only non-empty
\* rows, and serialize emits nothing for a Table with an empty header list
MalformedTablesSuppressed ==
    /\ result # None =>
          /\ \A t \in tables_in(result[1]) :
                 t.headers # <<>> /\ \A r \in 1..Len(t.rows) : t.rows[r] # <<>>
          /\ cell_count(doc) = 0 => tables_in(result[1]) = {}
    /\ \A rs \in RowSeqs : serialize(Table(<<>>, rs), options) = <<>>

\* convert has returned for a table element that has rows but no cell
MalformedTablesSuppressedWitness ==
    /\ result # None /\ is_table(doc) /\ cell_count(doc) = 0
    /\ SelectSeq(element_children(doc), is_tr) # <<>>
    /\ tables_in(result[1]) = {}


(***************************************************************************)
(* Properties of the streaming handlers (lol_streaming.rs).                *)
(***************************************************************************)
\* the contexts below the top one are the same before and after the step
lower_contexts_unchanged ==
    \A i \in 1..(Len(stack) - 1) : i <= Len(stack') /\ stack'[i] = stack[i]

\* the top context has got these inlines and these blocks and nothing else
top_appended(inlines, blocks) ==
    /\ Len(stack') = Len(stack)
    /\ lower_contexts_unchanged
    /\ stack'[Len(stack)] = [stack[Len(stack)] EXCEPT !.inlines = @ \o inlines,
                                                      !.blocks = @ \o blocks]

\* C19: a text event inside pre or code appends the chunk unchanged as a Text to
\* the top context's inlines; elsewhere it appends the collapsed and escaped
\* chunk if that is not blank and nothing for a chunk of whitespace only; the
\* depth of the stack and all other contexts stay as they are
TextEventEffect ==
    [][(TextHandler /\ Head(events).text # <<>>) =>
          LET text == Head(events).text
              verbatim == \E i \in 1..Len(stack) : stack[i].tag \in {"pre", "code"}
              collapsed == collapse_whitespace(text)
          IN top_appended(IF verbatim THEN <<Text(text)>>
                          ELSE IF trim(collapsed) = <<>> THEN <<>>
                          ELSE <<Text(escape_markdown(collapsed))>>, <<>>)]_vars

\* C20: an open event for br, hr or img changes neither the depth of the stack
\* nor a context below the top: br appends LineBreak to the top context's
\* inlines, hr appends ThematicBreak to its blocks, img appends an Image to its
\* inlines iff its src is present and not empty; any other tag that is not
\* elided pushes exactly one new context with the attributes of the tag
SelfClosingTags ==
    [][ElementHandler =>
          LET tag == Head(events).tag
              attributes == Head(events).attributes
          IN CASE tag = "br" -> top_appended(<<LineBreak>>, <<>>)
               [] tag = "hr" -> top_appended(<<>>, <<ThematicBreak>>)
               [] tag = "img" ->
                     top_appended(IF attributes.src # None /\ attributes.src[1] # <<>>
                                  THEN <<Image(IF attributes.alt = None THEN <<>>
                                               ELSE attributes.alt[1],
                                               attributes.src[1], attributes.title)>>
                                  ELSE <<>>, <<>>)
               [] tag \in SkippedTags -> TRUE
               [] OTHER ->
                     /\ Len(stack') = Len(stack) + 1
                     /\ SubSeq(stack', 1, Len(stack)) = stack
                     /\ stack'[Len(stack')] =
                            [tag |-> tag, inlines |-> <<>>, blocks |-> <<>>,
                             list_items |-> <<>>, table_headers |-> <<>>,
                             table_rows |-> <<>>, attrs |-> ElementAttrs(attributes)]]_vars

\* the open event of a br inside a paragraph has been handled: the paragraph's
\* context is still the top one and holds the LineBreak after its text
SelfClosingTagsWitness ==
    /\ Len(stack) = 2 /\ stack[2].tag = "p"
    /\ stack[2].inlines = <<Text(Ta), LineBreak>>
    /\ result = None


\* C21: at the end of a balanced stream finalize pops the root: with blocks in
\* the root the result consists of exactly those blocks in order, followed by
\* one Paragraph of the root's inlines when these are not blank; with only
\* non-blank inlines it is one Paragraph of them; with nothing non-blank it is
\* the empty Document
StreamEndResult ==
    [][(Finalize /\ Len(stack) = 1) =>
          LET root == stack[1]
              tail == IF inlines_are_blank(root.inlines) THEN <<>>
                      ELSE <<Paragraph(root.inlines)>>
              all == root.blocks \o tail
          IN /\ stack' = <<>>
             /\ result' # None
             /\ IF root.blocks = <<>>
                THEN result'[1] = (IF tail = <<>> THEN Document(<<>>) ELSE tail[1])
                ELSE \/ result'[1] = Document(all)
                     \/ Len(all) = 1 /\ result'[1] = all[1]]_vars

\* the stream of <p>a</p>b has ended: the result is the paragraph of the root's
\* blocks followed by the paragraph of the root's inlines
StreamEndResultWitness ==
    /\ doc = DocumentFragment(<<El("p", <<TextNode(Ta)>>), TextNode(Tb)>>)
    /\ stack = <<>>
    /\ result = Some(Document(<<Pa, Pb>>))


\* the context an end tag closes, and the context below it afterwards
closing == stack[Len(stack)]
parent_after == stack'[Len(stack) - 1]

\* C22: closing a ul or ol in which li elements were closed appends to the parent
\* one List (ordered iff ol, start from the start attribute, else 1) with one
\* item per closed li in order, holding what the li gave; closing a table in
\* which rows with cells were closed appends a Table
StreamingListClose ==
    [][(EndTagHandler /\ Len(stack) > 1 /\ closing.blocks # <<>>) =>
          /\ closing.tag \in {"ul", "ol"} =>
                /\ Len(stack') = Len(stack) - 1
                /\ parent_after.blocks =
                      Append(stack[Len(stack) - 1].blocks,
                             List(closing.tag = "ol", unwrap_or(closing.attrs.start, U32(0, 1)),
                                  [i \in 1..Len(closing.blocks) |->
                                      ListItem(top_blocks(closing.blocks[i]))]))
          /\ closing.tag = "table" =>
                /\ Len(stack') = Len(stack) - 1
                /\ Len(parent_after.blocks) = Len(stack[Len(stack) - 1].blocks) + 1
                /\ parent_after.blocks[Len(parent_after.blocks)].k = "Table"]_vars


\* the li elements directly below a node, and the elements that collect_inlines
\* turns into inline content
is_item_node(n) == is_element(n) /\ tag_name(n) = "li"
direct_items(node) == SelectSeq(children_of(node), is_item_node)
InlineElementTags == {"a", "strong", "b", "em", "i", "code", "span", "img", "br"}
inline_only(node) ==
    \A i \in 1..Len(children_of(node)) :
        is_element(children_of(node)[i]) => tag_name(children_of(node)[i]) \in InlineElementTags

\* C23: the conversion of a ul or ol with li children is a List with one item
\* per direct li child in document order; an li with only text and inline
\* elements gives exactly one Paragraph of all its inline content in order, an
\* li with block children gives the blocks of its children
ListItemContent ==
    (result # None /\ is_element(doc) /\ tag_name(doc) \in {"ul", "ol"}
        /\ direct_items(doc) # <<>>) =>
        /\ result[1].k = "List"
        /\ Len(result[1].items) = Len(direct_items(doc))
        /\ \A k \in 1..Len(direct_items(doc)) :
              LET li == direct_items(doc)[k]
              IN result[1].items[k] =
                    (IF inline_only(li)
                     THEN ListItem(<<Paragraph(collect_inlines(li, options, DefaultContext))>>)
                     ELSE ListItem(convert_children(li, options, DefaultContext)))

(***************************************************************************)
(* The service over an HTML string (turndown/src/service.rs): turndown     *)
(* walks the parsed fragment, every element going through the rules, and   *)
(* post-processes the text.  Rules are registered as in the other service. *)
(***************************************************************************)
RECURSIVE html_process_children(_, _, _), html_process_element(_, _, _, _)

html_process_children(rs, node, opts) ==
    LET cs == children_of(node)
        parent == IF is_element(node) THEN Some(tag_name(node)) ELSE None
        one(child) ==
            CASE child.node_type = "Text" ->
                    escape_text(collapse_whitespace(child.node_value))
              [] child.node_type = "Element" -> html_process_element(rs, child, parent, opts)
              [] OTHER -> <<>>
    IN concat([i \in 1..Len(cs) |-> one(cs[i])])

html_process_element(rs, node, parent_tag, opts) ==
    LET node_ref == NodeRef(node, parent_tag)
        content == html_process_children(rs, node, opts)
    IN IF should_remove(rs, node_ref, opts) THEN <<>>
       ELSE IF should_keep(rs, node_ref, opts) THEN keep_replacement(node_ref)
       ELSE IF for_element(rs, node_ref, opts) # None
            THEN replace(for_element(rs, node_ref, opts)[1], node_ref, content, opts)
            ELSE content

\* the text without leading and trailing newlines, at most two newlines in a row
post_process(s) ==
    LET r == trim_matches_end(trim_matches_start(s, is_newline), is_newline)
        third(i) == i > 2 /\ r[i] = NL /\ r[i - 1] = NL /\ r[i - 2] = NL
    IN concat([i \in 1..Len(r) |-> IF third(i) THEN <<>> ELSE <<r[i]>>])

turndown(rs, fragment, opts) == post_process(html_process_children(rs, fragment, opts))

\* lists of one or two items, each a text
ListElements ==
    {El(tag, items) : tag \in {"ul", "ol"},
                      items \in SeqsUpTo({El("li", <<TextNode(Ta)>>), El("li", <<TextNode(Tb)>>)},
                                         MaxItems) \ {<<>>}}

HtmlElements == RuleElements \cup ListElements

TurndownInit == RulesInit

\* TurndownService::turndown on the fragment holding one element
Turndown ==
    /\ \E e \in HtmlElements :
          /\ element' = e
          /\ text_out' = Some(turndown(rules, DocumentFragment(<<e>>), options))
    /\ UNCHANGED <<rules, serVars, streamVars>>

TurndownNext == AddRule \/ Keep \/ Remove \/ Turndown

SpecTurndown == TurndownInit /\ [][TurndownNext]_vars

\* the item lines of a list of text items: the k-th behind k and ".  " in an
\* ordered list, each behind the bullet marker and three spaces otherwise
item_lines(list, opts) ==
    [k \in 1..Len(children_of(list)) |->
        (IF tag_name(list) = "ol" THEN to_string(U32(0, k)) \o <<".", " ", " ">>
         ELSE <<opts.bullet_list_marker, " ", " ", " ">>)
            \o text_content(children_of(list)[k])]

\* C24: with the CommonMark rules, the text of an ol of n li elements is n item
\* lines in document order, the k-th behind "k.  "; the text of a ul has each
\* item behind the bullet marker and three spaces
OrderedListNumbering ==
    (text_out # None /\ element \in ListElements /\ rules = Rules_new) =>
        lines(text_out[1]) = item_lines(element, options)

(***************************************************************************)
(* The front-end over the tl parser (tl_streaming.rs): html_to_ast parses  *)
(* the whole input, then walks the DOM.  The Node tree stands for the      *)
(* VDom; the arms modelled are those of the tags the inputs use: p, h1 to  *)
(* h6, hr, the containers, strong, b, em, i, span, br and unknown tags.    *)
(***************************************************************************)
\* the number of leading characters of s that are in chars
leading_run(s, chars) == set_min({i \in 0..Len(s) : i = Len(s) \/ s[i + 1] \notin chars})

DigitChars == {"0", "1", "2", "3", "4", "5", "6", "7", "8", "9"}

\* needs_escape of escape_line_start, on the text without its leading whitespace
needs_escape(trimmed, hash_count, tilde_count, digit_count) ==
    CASE trimmed[1] = "-" -> TRUE
      [] trimmed[1] = "+" -> Len(trimmed) > 1 /\ trimmed[2] = " "
      [] trimmed[1] = ">" -> TRUE
      [] trimmed[1] = "#" ->
            hash_count <= 6 /\ Len(trimmed) > hash_count /\ trimmed[hash_count + 1] = " "
      [] trimmed[1] = "=" -> TRUE
      [] trimmed[1] = "~" -> tilde_count >= 3
      [] trimmed[1] \in DigitChars ->
            Len(trimmed) > digit_count /\ trimmed[digit_count + 1] = "."
      [] OTHER -> FALSE

\* s with a backslash behind its leading whitespace
insert_backslash(s, trimmed) == SubSeq(s, 1, Len(s) - Len(trimmed)) \o <<"\\">> \o trimmed

escaped_start(s, trimmed) ==
    IF trimmed = <<>> THEN s
    ELSE IF needs_escape(trimmed, leading_run(trimmed, {"#"}), leading_run(trimmed, {"~"}),
                         leading_run(trimmed, DigitChars))
         THEN insert_backslash(s, trimmed)
         ELSE s

\* a backslash in front of the first character that would open a Markdown block
escape_line_start(s) == escaped_start(s, trim_start(s))

collapse_and_escape(s) ==
    escape_line_start(
        concat([i \in 1..Len(s) |->
                   IF is_whitespace(s[i])
                   THEN (IF i > 1 /\ is_whitespace(s[i - 1]) THEN <<>> ELSE <<" ">>)
                   ELSE IF s[i] \in {"\\", "*", "_", "[", "]", Backtick}
                        THEN <<"\\", s[i]>>
                        ELSE <<s[i]>>]))

is_text_inline(i) == i.k = "Text"

\* the trailing half of trim_inlines: the last inline, if a text, loses its
\* trailing whitespace, and goes if nothing is left
trim_trailing(inlines, n) ==
    IF n = 0 \/ ~is_text_inline(inlines[n]) THEN inlines
    ELSE IF trim_end(inlines[n].s) = <<>> THEN SubSeq(inlines, 1, n - 1)
    ELSE [inlines EXCEPT ![n] = Text(trim_end(inlines[n].s))]

\* trim_inlines: leading texts that are whitespace go; the first text left loses
\* its leading whitespace; then the trailing half
RECURSIVE trim_inlines(_)
trim_inlines(inlines) ==
    IF inlines = <<>> \/ ~is_text_inline(inlines[1]) THEN trim_trailing(inlines, Len(inlines))
    ELSE IF trim_start(inlines[1].s) = <<>> THEN trim_inlines(Tail(inlines))
    ELSE trim_trailing([inlines EXCEPT ![1] = Text(trim_start(inlines[1].s))], Len(inlines))

\* the text inline of a processed text, nothing if it is whitespace
text_inline(processed) == IF trim(processed) # <<>> THEN <<Text(processed)>> ELSE <<>>

\* the match of collect_inline_from_tag on the tag name; inner and through are the
\* values of collect_inlines on the tag and of collect_inline_node on its children
inline_from_tag(name, inner, through) ==
    CASE name \in {"strong", "b"} -> IF inner # <<>> THEN <<Strong(inner)>> ELSE <<>>
      [] name \in {"em", "i"} -> IF inner # <<>> THEN <<Emphasis(inner)>> ELSE <<>>
      [] name = "br" -> <<LineBreak>>
      [] OTHER -> through

RECURSIVE collect_inline_node(_)

\* the inlines that collect_inline_node pushes for a node
collect_inline_node(node) ==
    LET cs == children_of(node)
        pushed == concat([i \in 1..Len(cs) |-> collect_inline_node(cs[i])])
    IN CASE node.node_type = "Element" ->
                inline_from_tag(tag_name(node), trim_inlines(pushed), pushed)
         [] node.node_type = "Text" -> text_inline(collapse_and_escape(node.node_value))
         [] OTHER -> <<>>

\* the inlines that collect_inline_from_tag pushes for a tag
collect_inline_from_tag(tag) == collect_inline_node(tag)

tl_collect_inlines(tag) ==
    trim_inlines(concat([i \in 1..Len(children_of(tag)) |->
                            collect_inline_node(children_of(tag)[i])]))

TlContainerTags ==
    {"div", "section", "article", "main", "aside", "header", "footer", "nav", "figure",
     "body", "html"}
TlInlineTags ==
    {"strong", "b", "em", "i", "code", "span", "small", "sub", "sup", "mark", "del", "ins", "u"}

\* the paragraph process_nodes makes of a text directly below the root or a container
raw_paragraph(text, processed) ==
    IF trim(text) # <<>> /\ trim(processed) # <<>>
    THEN Some(Paragraph(<<Text(processed)>>))
    ELSE None

\* the match of process_element on the tag name; inlines, inner_blocks and
\* from_tag are the values of collect_inlines, process_nodes on the children and
\* collect_inline_from_tag
tl_block_of(name, inlines, inner_blocks, from_tag) ==
    CASE name = "p" -> IF inlines = <<>> THEN None ELSE Some(Paragraph(inlines))
      [] name \in HeadingTags ->
            IF inlines = <<>> THEN None ELSE Some(Heading(heading_level(name), inlines))
      [] name = "hr" -> Some(ThematicBreak)
      [] name \in TlInlineTags ->
            IF from_tag = <<>> THEN None ELSE Some(Paragraph(from_tag))
      [] OTHER ->
            IF inner_blocks # <<>> THEN merge_blocks(inner_blocks)
            ELSE IF inlines = <<>> THEN None
            ELSE Some(Paragraph(inlines))

RECURSIVE process_nodes(_)

process_nodes(handles) ==
    LET tl_process_element(tag) ==
            tl_block_of(tag_name(tag), tl_collect_inlines(tag), process_nodes(children_of(tag)),
                        collect_inline_from_tag(tag))
        one(node) ==
            CASE node.node_type = "Element" -> tl_process_element(node)
              [] node.node_type = "Text" ->
                    raw_paragraph(node.node_value, collapse_and_escape(node.node_value))
              [] OTHER -> None
    IN somes([i \in 1..Len(handles) |-> one(handles[i])])

\* html_to_ast after tl::parse has returned the DOM
tl_html_to_ast(dom) ==
    LET blocks == process_nodes(children_of(dom))
    IN IF blocks = <<>> THEN Document(<<>>)
       ELSE IF Len(blocks) = 1 THEN blocks[1]
       ELSE Document(blocks)

\* the call did not return: it unwound with "HTML parse error"
Unwound == [k |-> "Unwound"]

TlTopNodes ==
    {TextNode(Ta), TextNode(<<" ">>), TextNode(<<"-", " ", "a", "*">>),
     El("p", <<TextNode(<<" ", "a", " ">>)>>),
     El("p", <<TextNode(<<" ">>), El("strong", <<TextNode(Tb)>>), TextNode(<<" ">>)>>),
     El("p", <<TextNode(Ta), Void("br", NoAttrs), El("em", <<TextNode(<<"1", ".", " ">>)>>)>>),
     El("h2", <<El("span", <<TextNode(Ta)>>)>>),
     Void("hr", NoAttrs),
     El("div", <<El("p", <<TextNode(Ta)>>), El("p", <<TextNode(Tb)>>)>>),
     El("div", <<TextNode(Ta)>>),
     El("strong", <<TextNode(Ta)>>),
     El("span", <<TextNode(<<" ">>)>>),
     El("x", <<TextNode(Tb)>>)}

TlDocs == {DocumentFragment(c) : c \in ChildSeqs(TlTopNodes, MaxChildren)}

TlInit ==
    /\ doc \in TlDocs
    /\ options \in OptionsSet
    /\ events = <<>> /\ stack = <<>> /\ result = None
    /\ SerIdle /\ RulesIdle

\* html_to_ast when tl::parse returns the DOM
TlHtmlToAst ==
    /\ doc # <<>> /\ result = None
    /\ result' = Some(tl_html_to_ast(doc))
    /\ UNCHANGED <<doc, events, stack, serVars, ruleVars>>

\* html_to_ast when tl::parse returns an error: expect unwinds
TlParseError ==
    /\ doc # <<>> /\ result = None
    /\ result' = Some(Unwound)
    /\ UNCHANGED <<doc, events, stack, serVars, ruleVars>>

TlNext == TlHtmlToAst \/ TlParseError

SpecTl == TlInit /\ [][TlNext]_vars

\* C25: when the parser reports failure for the input, html_to_ast returns the
\* empty Document: it neither unwinds nor returns content
ParseFailureGivesEmptyDocument ==
    [][TlParseError => result' = Some(Document(<<>>))]_vars

\* C26: attribute defaults in the streaming converter: closing an ol in which li
\* elements were closed appends a List whose start is the numeric value of the
\* start attribute, or 1 when the attribute is missing or is no u32; closing an
\* a element without href and title gives no Link: its single inline goes to the
\* parent, and nothing when it holds none or several
AttributeDefaults ==
    [][(EndTagHandler /\ Len(stack) > 1) =>
          /\ (closing.tag = "ol" /\ closing.blocks # <<>>) =>
                /\ Len(stack') = Len(stack) - 1
                /\ parent_after.blocks # <<>>
                /\ parent_after.blocks[Len(parent_after.blocks)].k = "List"
                /\ parent_after.blocks[Len(parent_after.blocks)].start =
                      unwrap_or(closing.attrs.start, U32(0, 1))
          /\ (closing.tag = "a" /\ closing.attrs.href = None /\ closing.attrs.title = None) =>
                /\ Len(stack') = Len(stack) - 1
                /\ parent_after.blocks = stack[Len(stack) - 1].blocks
                /\ parent_after.inlines =
                      stack[Len(stack) - 1].inlines
                          \o (IF Len(closing.inlines) = 1 THEN closing.inlines ELSE <<>>)]_vars

(***************************************************************************)
(* serialize called twice on the same Block and Options.                   *)
(***************************************************************************)
\* the second call of serialize returns: its buffer is a new String
SerializeAgain ==
    /\ ser_pc = "done"
    /\ raw' = serialize_block(block, options, 0)
    /\ output' = serialize(block, options)
    /\ ser_pc' = "repeated"
    /\ UNCHANGED <<block, options, overflow_checks, streamVars, ruleVars>>

SerTwiceNext == Serialize \/ SerializePanic \/ SerializeAgain

SpecSerializeTwice == SerInit /\ [][SerTwiceNext]_vars

MaxDepth == 3
MaxContent == 2

\* the inlines and blocks held by all contexts of the stack
content_size(st) ==
    LET sizes == [i \in 1..Len(st) |-> Len(st[i].inlines) + Len(st[i].blocks)]
        sum[i \in 0..Len(st)] == IF i = 0 THEN 0 ELSE sum[i - 1] + sizes[i]
    IN sum[Len(st)]

StackInit ==
    /\ stack = ParserState_new
    /\ options \in OptionsSet
    /\ doc = <<>> /\ events = <<>> /\ result = None
    /\ SerIdle /\ RulesIdle

\* ParserState::push_element
PushElement ==
    /\ result = None /\ Len(stack) < MaxDepth
    /\ \E tag \in {"p", "div"} : stack' = push_element(stack, tag, NoAttrs)
    /\ UNCHANGED <<doc, events, result, serVars, ruleVars>>

\* ParserState::pop_element
PopElement ==
    /\ result = None
    /\ stack' = pop_element(stack).stack
    /\ UNCHANGED <<doc, events, result, serVars, ruleVars>>

\* ParserState::add_text
AddText ==
    /\ result = None /\ content_size(stack) < MaxContent
    /\ \E text \in {<<>>, Ta, <<" ">>} : stack' = add_text(stack, text)
    /\ UNCHANGED <<doc, events, result, serVars, ruleVars>>

\* ParserState::add_inline
AddInline ==
    /\ result = None /\ content_size(stack) < MaxContent
    /\ stack' = add_inline(stack, LineBreak)
    /\ UNCHANGED <<doc, events, result, serVars, ruleVars>>

\* ParserState::add_block
AddBlock ==
    /\ result = None /\ content_size(stack) < MaxContent
    /\ \E b \in {ThematicBreak, Document(<<>>)} : stack' = add_block(stack, b)
    /\ UNCHANGED <<doc, events, result, serVars, ruleVars>>

\* ParserState::finalize
FinalizeState ==
    /\ result = None
    /\ result' = Some(finalize(stack))
    /\ stack' = SubSeq(stack, 1, Len(stack) - 1)
    /\ UNCHANGED <<doc, events, serVars, ruleVars>>

StackNext == PushElement \/ PopElement \/ AddText \/ AddInline \/ AddBlock \/ FinalizeState

SpecStack == StackInit /\ [][StackNext]_vars

\* C28: before finalize the stack is never empty and its bottom context is
\* $root; pop_element on the root alone returns None and changes nothing; a push
\* makes the stack one deeper, a pop that returns a context one shallower, and
\* add_text, add_inline and add_block keep the depth
StreamingStackInvariant ==
    /\ [](result = None => (Len(stack) >= 1 /\ stack[1].tag = "$root"))
    /\ [][/\ PushElement => Len(stack') = Len(stack) + 1
          /\ PopElement =>
                IF Len(stack) = 1
                THEN pop_element(stack).ctx = None /\ stack' = stack
                ELSE /\ pop_element(stack).ctx = Some(stack[Len(stack)])
                     /\ stack' = SubSeq(stack, 1, Len(stack) - 1)
          /\ (AddText \/ AddInline \/ AddBlock) =>
                (Len(stack') = Len(stack) /\ stack'[1].tag = "$root")]_vars

\* two contexts are open above the root, each holding content
StreamingStackInvariantWitness ==
    /\ result = None /\ Len(stack) = MaxDepth
    /\ stack[1].tag = "$root" /\ stack[2].inlines # <<>> /\ stack[MaxDepth].blocks # <<>>

\* the non-blank text chunks of a document in the order the text handler
\* receives them, as add_text stores them, without those inside elided tags
RECURSIVE text_chunks(_)
text_chunks(node) ==
    CASE node.node_type = "Text" ->
            IF trim(node.node_value) = <<>> THEN <<>>
            ELSE <<trim(escape_markdown(collapse_whitespace(node.node_value)))>>
      [] node.node_type = "Element" /\ node.node_name \in SkippedTags -> <<>>
      [] OTHER -> concat([i \in 1..Len(children_of(node)) |-> text_chunks(children_of(node)[i])])

\* the chunks occur in s one behind the other
RECURSIVE in_order(_, _)
in_order(s, chunks) ==
    \/ chunks = <<>>
    \/ \E off \in 0..(Len(s) - Len(chunks[1])) :
          /\ SubSeq(s, off + 1, off + Len(chunks[1])) = chunks[1]
          /\ in_order(SubSeq(s, off + Len(chunks[1]) + 1, Len(s)), Tail(chunks))

no_code_elements(node) == \A e \in elements_of(node) : e.node_name \notin {"pre", "code"}

\* C29: for a document with every element closed, every non-blank text chunk
\* outside elided tags occurs in the serialized result of the stream, and the
\* chunks occur in the order they were received (text stored verbatim below pre
\* and code is left aside)
StreamingContentKept ==
    (result # None /\ all_closed(doc) /\ no_code_elements(doc)) =>
        in_order(serialize(result[1], options), text_chunks(doc))

\* C30: the output of a CodeBlock in fenced form is the opening fence line, the
\* code exactly as the block holds it, runs of blank lines included, and the
\* closing fence line: collapse_and_trim leaves the code as it is
CodeBlockVerbatim ==
    (ser_pc = "done" /\ block.k = "CodeBlock"
        /\ (block.fenced \/ options.code_block_style = "Fenced")) =>
        output = fenced_form(block, options)

====
